---------------------------- MODULE Spec2Model ----------------------------
(***************************************************************************)
(* Cavern PVP: a two-role (Runner / Trapper) game session.                 *)
(*                                                                         *)
(* The module holds two groups of state, so that they do not multiply      *)
(* each other's states; every action leaves the other group unchanged:     *)
(*   SpecNet  - the two transports of src/services/p2p.ts (LocalNetwork    *)
(*              over a BroadcastChannel, UDPNetwork over a signaling relay *)
(*              and an unordered lossy data channel) and src/server.js;    *)
(*              SpecSignal adds signaling frames of a third client and     *)
(*              SpecDatagram datagrams that do not parse, SpecNegotiate    *)
(*              the offer/answer exchange under weak fairness;             *)
(* and one App instance (src/App.tsx, ConnectionSetup.tsx and              *)
(* TrapperView.tsx), explored from its first render under several menus    *)
(* of inputs:                                                              *)
(*   SpecApp  - the session controller on both transports, every inbound   *)
(*              message kind, a few ticks on the fallback level;           *)
(*   SpecLobby- the same without the frame loop; SpecStale the Trapper on  *)
(*              the negotiated transport with snapshots of every status;   *)
(*   SpecSim  - the Runner on the loopback transport: ticks, keys and trap *)
(*              intents on a level of two overlapping platforms;           *)
(*   SpecFall - long falls on levels with a pit, a far goal platform and   *)
(*              no platform at all, over two sessions;                     *)
(*   SpecGoal - one Runner session on a level whose only platform lies     *)
(*              just before the goal line and below the death line;        *)
(*   SpecStart- starting a game against every answer of the level          *)
(*              generator (src/unnamed/part_001), the missing answer       *)
(*              included, with weak fairness on what the runtime runs;     *)
(*   SpecEdge - a platform whose left edge the actor lands on, and Cracks; *)
(*   SpecRevive - a level with a platform at x = 0, to the first death;    *)
(*   SpecReverse - a Reverse intent and the whole of its countdown;        *)
(*   SpecTrapper - the Trapper's view: trap buttons, their cooldowns and   *)
(*              the cooldown timer, over two sessions;                     *)
(*   SpecBomb - a Bomb intent of either sign, to the first death.          *)
(*                                                                         *)
(* Vertical quantities (y, vy, platform y, thresholds, GRAVITY, ...) are   *)
(* integers in TENTHS of a pixel: the source's GRAVITY = 0.6 is 6 here,    *)
(* and every vertical number of the source is a multiple of 0.1.           *)
(* Horizontal quantities and times (ms) are whole numbers as in the source.*)
(***************************************************************************)
EXTENDS Integers, Sequences, FiniteSets, TLC

\* ------------------------------------------------------------------------
\* Bounds of the model (not program constants)
\* ------------------------------------------------------------------------
\* application messages handed to send() in a run, over both endpoints
MaxSends == 2

\* ------------------------------------------------------------------------
\* State
\* ------------------------------------------------------------------------
VARIABLES
    \* ---- transports (src/services/p2p.ts, src/server.js)
    mode,            \* ConnectionMode of the run: "LOCAL" or "UDP_P2P"
    channel,         \* LocalNetwork.channel per endpoint: "null" | "open" | "closed"
    localCallback,   \* LocalNetwork.messageCallback is set
    inbox,           \* message-event tasks queued for each BroadcastChannel
    signalingWs,     \* UDPNetwork.signalingWs: "null" | "connecting" | "open" | "failed" | "closed"
    peerConnection,  \* UDPNetwork.peerConnection: "null" | "new" | "offered" | "stable" | "closed"
    dataChannel,     \* UDPNetwork.dataChannel: "null" | "connecting" | "open" | "closed"
    udpCallback,     \* UDPNetwork.messageCallback is set
    offerPending,    \* createOffer() is awaiting (Runner)
    relayClients,    \* server.js: the clients whose socket is OPEN on the relay
    toRelay,         \* signaling frames on their way to the relay (reliable, ordered)
    fromRelay,       \* signaling frames on their way from the relay to each client
    wire,            \* datagrams in flight on the data channel (unordered, lossy)
    delivered,       \* per endpoint: what its registered callback was invoked with
    foreign,         \* signaling frames of other clients of the relay handed to the two peers
    foreignSeen,     \* per endpoint: the kinds of those frames handleSignalingMessage ran for
    dropped,         \* per endpoint, for each datagram its onmessage handler swallowed:
                     \* how many messages the callback had been given by then
    sendLog,         \* per endpoint: every send() call, and whether the channel was open then
    raised,          \* exceptions that escaped to the caller of a transport method
    connectResult,   \* outcome of the connect() promise per endpoint
    disconnects,     \* per endpoint: the situations disconnect() was called in
    \* ---- one App instance (src/App.tsx, src/components/ConnectionSetup.tsx)
    screen,          \* AppScreen state
    role,            \* Role state ("null" before the first selection)
    network,         \* networkRef.current: "null" or the adapter's type
    link,            \* that adapter: "none" | "idle" | "connecting" | "signaling" | "open" | "failed" | "closed"
    callback,        \* the function held in the adapter's messageCallback: "none" | "dispatcher" | "setup"
    cbRole,          \* `role` as captured by the dispatcher closure
    cbScreen,        \* `screen` as captured by the dispatcher closure
    isOpponentConnected,
    chatHistory,
    pendingStart,    \* an initiateGame() call awaiting generateLevel(): the role its closure holds, or "none"
    generation,      \* the generateLevel() call it awaits: "none" | "pending" | "unanswered"
    heartbeat,       \* the presence interval of the heartbeat effect is installed
    stateRef,        \* stateRef.current, the authoritative GameState
    gameState,       \* the gameState React state (what the views render)
    keysPressed,     \* keysPressed.current
    frames,          \* gameLoop callbacks requested for the next animation frame
    running,         \* callbacks of the current animation frame still to run
    gap,             \* ms from lastTimeRef.current to the current frame's timestamp
    crashed,         \* a frame callback ended in an uncaught exception
    ticks,           \* gameLoop calls since the last game start
    inputs,          \* inbound messages and key events handled so far
    sessions,        \* handleModeSelect calls so far
    appOp,           \* the App operation that ran last: its name and argument, stateRef before
                     \* it, and the operation before it (with whether that one changed stateRef)
    sent,            \* the messages that operation put on the transport, in order
    \* ---- the Trapper's game view (src/components/TrapperView.tsx)
    cooldowns,       \* the cooldowns state of the mounted view, per trap kind, in ms
    sinceTrap        \* per trap kind: cooldown-timer ticks since an intent of it was last
                     \* sent (-1: none sent yet; counted up to the kind's full cooldown)

netVars == <<mode, channel, localCallback, inbox, signalingWs, peerConnection,
             dataChannel, udpCallback, offerPending, relayClients, toRelay,
             fromRelay, foreign, foreignSeen,
             wire, delivered, dropped, sendLog, raised, connectResult,
             disconnects>>

appVars == <<screen, role, network, link, callback, cbRole, cbScreen, isOpponentConnected,
             chatHistory, pendingStart, generation, heartbeat, stateRef, gameState,
             keysPressed, frames, running, gap, crashed, ticks, inputs, sessions, appOp, sent,
             cooldowns, sinceTrap>>

viewVars == <<cooldowns, sinceTrap>>

vars == <<netVars, appVars>>

Roles == {"RUNNER", "TRAPPER"}

Other(r) == IF r = "RUNNER" THEN "TRAPPER" ELSE "RUNNER"

\* An application message: who sent it and the sender's running number.
\* The PING of setupDataChannel's onopen carries number 0.
AppMsg(r, n) == [type |-> "APP", from |-> r, n |-> n]

PingMsg(r) == [type |-> "PING", from |-> r, n |-> 0]

NetIdle ==
    /\ channel = [r \in Roles |-> "null"]
    /\ localCallback = [r \in Roles |-> FALSE]
    /\ inbox = [r \in Roles |-> <<>>]
    /\ signalingWs = [r \in Roles |-> "null"]
    /\ peerConnection = [r \in Roles |-> "null"]
    /\ dataChannel = [r \in Roles |-> "null"]
    /\ udpCallback = [r \in Roles |-> FALSE]
    /\ offerPending = FALSE
    /\ relayClients = {}
    /\ toRelay = <<>>
    /\ fromRelay = [r \in Roles |-> <<>>]
    /\ wire = {}
    /\ delivered = [r \in Roles |-> <<>>]
    /\ dropped = [r \in Roles |-> <<>>]
    /\ foreign = 0
    /\ foreignSeen = [r \in Roles |-> {}]
    /\ sendLog = [r \in Roles |-> <<>>]
    /\ raised = {}
    /\ connectResult = [r \in Roles |-> "none"]
    /\ disconnects = [r \in Roles |-> {}]

\* ------------------------------------------------------------------------
\* LocalNetwork (p2p.ts 14-38)
\* ------------------------------------------------------------------------
localUnchanged == UNCHANGED <<signalingWs, peerConnection, dataChannel, udpCallback,
                              offerPending, relayClients, toRelay, fromRelay, wire,
                              dropped, foreign, foreignSeen, connectResult, mode,
                              appVars>>

\* connect(role): a new BroadcastChannel on the fixed channel name, with the
\* onmessage handler installed.  App.tsx 139-140 connects each new adapter once.
LocalNetwork_connect(r) ==
    /\ mode = "LOCAL"
    /\ channel[r] = "null"
    /\ channel' = [channel EXCEPT ![r] = "open"]
    /\ UNCHANGED <<localCallback, inbox, delivered, sendLog, raised>>
    /\ UNCHANGED disconnects
    /\ localUnchanged

LocalNetwork_onMessage(r) ==
    /\ mode = "LOCAL"
    /\ ~localCallback[r]
    /\ localCallback' = [localCallback EXCEPT ![r] = TRUE]
    /\ UNCHANGED <<channel, inbox, delivered, sendLog, raised>>
    /\ UNCHANGED disconnects
    /\ localUnchanged

\* BroadcastChannel.postMessage from endpoint r: one message-event task for
\* every OTHER channel object of the same name that is not closed.
PostMessageMut(r, m) ==
    [d \in Roles |-> IF channel[d] = "open" THEN Append(inbox[d], m) ELSE inbox[d]]

PostMessage(r, m) ==
    [d \in Roles |-> IF d # r /\ channel[d] = "open" THEN Append(inbox[d], m) ELSE inbox[d]]

\* send(msg): this.channel?.postMessage(msg).  No channel: nothing happens.
\* A closed channel: postMessage throws InvalidStateError.
LocalNetwork_send(r) ==
    /\ mode = "LOCAL"
    /\ Len(sendLog[r]) + Len(sendLog[Other(r)]) < MaxSends
    /\ LET m == AppMsg(r, Len(sendLog[r]) + 1) IN
        /\ sendLog' = [sendLog EXCEPT ![r] =
                          Append(@, [msg |-> m,
                                     live |-> /\ channel[r] = "open"
                                              /\ channel[Other(r)] = "open"
                                              /\ localCallback[Other(r)]])]
        /\ inbox' = IF channel[r] = "open" THEN PostMessage(r, m) ELSE inbox
        /\ raised' = IF channel[r] = "closed" THEN raised \cup {<<"send", r>>} ELSE raised
    /\ UNCHANGED <<channel, localCallback, delivered>>
    /\ UNCHANGED disconnects
    /\ localUnchanged

\* The queued message-event task runs: skipped when the destination was
\* closed meanwhile; else onmessage (p2p.ts 22-24) invokes the callback if set.
LocalNetwork_onmessage(r) ==
    /\ mode = "LOCAL"
    /\ inbox[r] # <<>>
    /\ inbox' = [inbox EXCEPT ![r] = Tail(@)]
    /\ delivered' = IF channel[r] = "open" /\ localCallback[r]
                    THEN [delivered EXCEPT ![r] = Append(@, Head(inbox[r]))]
                    ELSE delivered
    /\ UNCHANGED <<channel, localCallback, sendLog, raised>>
    /\ UNCHANGED disconnects
    /\ localUnchanged

\* The situation a disconnect() call finds: never connected, connected (or
\* connecting), or already disconnected.
DisconnectCase(st) ==
    IF st = "null" THEN "never" ELSE IF st = "closed" THEN "again" ELSE "connected"

\* disconnect(): this.channel?.close()
LocalDisconnectThrowsMut(ch) == ch = "null"

LocalDisconnectThrows(ch) == FALSE

LocalClosed(ch) == IF ch = "null" THEN "null" ELSE "closed"

LocalNetwork_disconnect(r) ==
    /\ mode = "LOCAL"
    /\ channel' = [channel EXCEPT ![r] = LocalClosed(@)]
    /\ raised' = IF LocalDisconnectThrows(channel[r])
                 THEN raised \cup {<<"disconnect", r>>} ELSE raised
    /\ disconnects' = [disconnects EXCEPT ![r] = @ \cup {DisconnectCase(channel[r])}]
    /\ UNCHANGED <<localCallback, inbox, delivered, sendLog>>
    /\ localUnchanged

NextLocal ==
    \E r \in Roles :
        \/ LocalNetwork_connect(r)
        \/ LocalNetwork_onMessage(r)
        \/ LocalNetwork_send(r)
        \/ LocalNetwork_onmessage(r)
        \/ LocalNetwork_disconnect(r)

\* ------------------------------------------------------------------------
\* UDPNetwork (p2p.ts 43-193) and the signaling relay (server.js)
\* ------------------------------------------------------------------------
udpUnchanged ==
    UNCHANGED <<channel, localCallback, inbox, dropped, foreign, foreignSeen, mode,
                appVars>>

\* connect(role, address) 59-65: a new WebSocket to the relay.  The caller
\* (ConnectionSetup.handleConnect 27-51) can call it again only after a failure.
UDPNetwork_connect(r) ==
    /\ mode = "UDP_P2P"
    /\ signalingWs[r] \in {"null", "failed"}
    /\ signalingWs' = [signalingWs EXCEPT ![r] = "connecting"]
    /\ connectResult' = [connectResult EXCEPT ![r] = "pending"]
    /\ UNCHANGED <<peerConnection, dataChannel, udpCallback, offerPending, relayClients,
                   toRelay, fromRelay, wire, delivered, sendLog, raised>>
    /\ UNCHANGED disconnects
    /\ udpUnchanged

\* server.js 20: the relay accepts the client's socket.
Relay_connection(r) ==
    /\ mode = "UDP_P2P"
    /\ signalingWs[r] = "connecting"
    /\ r \notin relayClients
    /\ relayClients' = relayClients \cup {r}
    /\ UNCHANGED <<signalingWs, peerConnection, dataChannel, udpCallback, offerPending,
                   toRelay, fromRelay, wire, delivered, sendLog, raised, connectResult>>
    /\ UNCHANGED disconnects
    /\ udpUnchanged

\* signalingWs.onopen 66-70: initiatePeerConnection() 90-114, then resolve().
\* The Runner creates the data channel and starts createOffer(); the Trapper
\* only installs ondatachannel.
UDPNetwork_onopen(r) ==
    /\ mode = "UDP_P2P"
    /\ signalingWs[r] = "connecting"
    /\ r \in relayClients
    /\ signalingWs' = [signalingWs EXCEPT ![r] = "open"]
    /\ peerConnection' = [peerConnection EXCEPT ![r] = "new"]
    /\ dataChannel' = IF r = "RUNNER"
                      THEN [dataChannel EXCEPT ![r] = "connecting"] ELSE dataChannel
    /\ offerPending' = IF r = "RUNNER" THEN TRUE ELSE offerPending
    /\ connectResult' = [connectResult EXCEPT ![r] = "resolved"]
    /\ UNCHANGED <<udpCallback, relayClients, toRelay, fromRelay, wire, delivered,
                   sendLog, raised>>
    /\ UNCHANGED disconnects
    /\ udpUnchanged

\* an error handler that goes on to negotiate as if the socket had opened
UDPNetwork_onerrorMut(r) ==
    /\ mode = "UDP_P2P"
    /\ signalingWs[r] = "connecting"
    /\ signalingWs' = [signalingWs EXCEPT ![r] = "failed"]
    /\ peerConnection' = [peerConnection EXCEPT ![r] = "new"]
    /\ connectResult' = [connectResult EXCEPT ![r] = "rejected"]
    /\ UNCHANGED <<dataChannel, udpCallback, offerPending, relayClients,
                   toRelay, fromRelay, wire, delivered, sendLog, raised>>
    /\ UNCHANGED disconnects
    /\ udpUnchanged

\* signalingWs.onerror 72-75 before the socket opened: reject(err).
UDPNetwork_onerror(r) ==
    /\ mode = "UDP_P2P"
    /\ signalingWs[r] = "connecting"
    /\ signalingWs' = [signalingWs EXCEPT ![r] = "failed"]
    /\ connectResult' = [connectResult EXCEPT ![r] = "rejected"]
    /\ UNCHANGED <<peerConnection, dataChannel, udpCallback, offerPending, relayClients,
                   toRelay, fromRelay, wire, delivered, sendLog, raised>>
    /\ UNCHANGED disconnects
    /\ udpUnchanged

\* sendSignal(msg) 168-172: only while the signaling socket is OPEN.
SendSignal(r, type) ==
    IF signalingWs[r] = "open" THEN Append(toRelay, [from |-> r, type |-> type]) ELSE toRelay

\* createOffer() 133-138 resumes after its awaits: on a closed connection the
\* awaited call rejects and nothing is sent.
UDPNetwork_createOffer ==
    /\ mode = "UDP_P2P"
    /\ offerPending
    /\ offerPending' = FALSE
    /\ IF peerConnection["RUNNER"] = "new"
       THEN /\ peerConnection' = [peerConnection EXCEPT !["RUNNER"] = "offered"]
            /\ toRelay' = SendSignal("RUNNER", "SIGNAL_OFFER")
       ELSE UNCHANGED <<peerConnection, toRelay>>
    /\ UNCHANGED <<signalingWs, dataChannel, udpCallback, relayClients, fromRelay, wire,
                   delivered, sendLog, raised, connectResult>>
    /\ UNCHANGED disconnects
    /\ udpUnchanged

\* a relay that echoes the frame to its sender as well
RecipientsMut(sender) == relayClients

\* server.js 27-31: client !== ws && client.readyState === WebSocket.OPEN
Recipients(sender) == {c \in relayClients : c # sender}

\* server.js 24-32: a frame from one client goes to every OTHER client whose
\* socket is OPEN on the relay.
Relay_incoming ==
    /\ mode = "UDP_P2P"
    /\ toRelay # <<>>
    /\ LET f == Head(toRelay) IN
        fromRelay' = [c \in Roles |->
                        IF c \in Recipients(f.from)
                        THEN Append(fromRelay[c], f) ELSE fromRelay[c]]
    /\ toRelay' = Tail(toRelay)
    /\ UNCHANGED <<signalingWs, peerConnection, dataChannel, udpCallback, offerPending,
                   relayClients, wire, delivered, sendLog, raised, connectResult>>
    /\ UNCHANGED disconnects
    /\ udpUnchanged

\* server.js 34-36: the relay sees a client's socket close.
Relay_close(r) ==
    /\ mode = "UDP_P2P"
    /\ r \in relayClients
    /\ signalingWs[r] \in {"closed", "failed"}
    /\ relayClients' = relayClients \ {r}
    /\ UNCHANGED <<signalingWs, peerConnection, dataChannel, udpCallback, offerPending,
                   toRelay, fromRelay, wire, delivered, sendLog, raised, connectResult>>
    /\ UNCHANGED disconnects
    /\ udpUnchanged

\* server.js 24-32: the relay serves every client that connects, so a frame
\* of a third client (a second Runner or Trapper on the same relay) reaches
\* each of the two peers that is OPEN on the relay.
Relay_foreign(type, maxForeign) ==
    /\ mode = "UDP_P2P"
    /\ foreign < maxForeign
    /\ foreign' = foreign + 1
    /\ fromRelay' = [c \in Roles |->
                        IF c \in relayClients
                        THEN Append(fromRelay[c], [from |-> "THIRD", type |-> type])
                        ELSE fromRelay[c]]
    /\ UNCHANGED <<signalingWs, peerConnection, dataChannel, udpCallback, offerPending,
                   relayClients, toRelay, wire, delivered, sendLog, raised,
                   connectResult>>
    /\ UNCHANGED disconnects
    /\ UNCHANGED <<channel, localCallback, inbox, dropped, foreignSeen, mode, appVars>>

\* a handler that answers an offer whatever the local role
AnswersMut(r, type) == type = "SIGNAL_OFFER"

\* handleSignalingMessage 147: msg.type === 'SIGNAL_OFFER' && this.role === 'TRAPPER'
Answers(r, type) == type = "SIGNAL_OFFER" /\ r = "TRAPPER"

\* signalingWs.onmessage 77-86 -> handleSignalingMessage(msg) 140-166.
\* A frame reaching a socket that is no longer OPEN is discarded by the socket.
UDPNetwork_handleSignalingMessage(r) ==
    /\ mode = "UDP_P2P"
    /\ fromRelay[r] # <<>>
    /\ signalingWs[r] # "connecting"
    /\ fromRelay' = [fromRelay EXCEPT ![r] = Tail(@)]
    /\ LET f == Head(fromRelay[r]) IN
        /\ foreignSeen' = IF f.from = "THIRD" /\ signalingWs[r] = "open"
                          THEN [foreignSeen EXCEPT ![r] = @ \cup {f.type}]
                          ELSE foreignSeen
        /\ IF signalingWs[r] # "open" \/ peerConnection[r] \in {"null", "closed"}
           THEN UNCHANGED <<peerConnection, toRelay>>
           ELSE IF Answers(r, f.type)
           THEN /\ peerConnection' = [peerConnection EXCEPT ![r] = "stable"]
                /\ toRelay' = SendSignal(r, "SIGNAL_ANSWER")
           ELSE IF f.type = "SIGNAL_ANSWER" /\ r = "RUNNER" /\ peerConnection[r] = "offered"
           THEN /\ peerConnection' = [peerConnection EXCEPT ![r] = "stable"]
                /\ UNCHANGED toRelay
           ELSE UNCHANGED <<peerConnection, toRelay>>
    /\ UNCHANGED <<signalingWs, dataChannel, udpCallback, offerPending, relayClients,
                   wire, delivered, sendLog, raised, connectResult>>
    /\ UNCHANGED disconnects
    /\ UNCHANGED <<channel, localCallback, inbox, dropped, foreign, mode, appVars>>

\* send(msg) 174-182: transmitted only if the data channel is open; otherwise a
\* console warning and nothing else (no exception, no queue).
TransmitMut(r, m) == wire \cup {[to |-> Other(r), msg |-> m]}

Transmit(r, m) ==
    IF dataChannel[r] = "open" THEN wire \cup {[to |-> Other(r), msg |-> m]} ELSE wire

UDPNetwork_send(r) ==
    /\ mode = "UDP_P2P"
    /\ Len(sendLog[r]) + Len(sendLog[Other(r)]) < MaxSends
    /\ LET m == AppMsg(r, Len(sendLog[r]) + 1) IN
        /\ sendLog' = [sendLog EXCEPT ![r] =
                          Append(@, [msg |-> m, live |-> dataChannel[r] = "open"])]
        /\ wire' = Transmit(r, m)
    /\ UNCHANGED <<signalingWs, peerConnection, dataChannel, udpCallback, offerPending,
                   relayClients, toRelay, fromRelay, delivered, raised, connectResult>>
    /\ UNCHANGED disconnects
    /\ udpUnchanged

\* setupDataChannel 116-122: the channel opens once both descriptions are in
\* place on both sides (the Trapper gets it through ondatachannel 110-112);
\* onopen sends the PING through send().
UDPNetwork_dataChannel_onopen(r) ==
    /\ mode = "UDP_P2P"
    /\ peerConnection[r] = "stable" /\ peerConnection[Other(r)] = "stable"
    /\ dataChannel[r] = (IF r = "RUNNER" THEN "connecting" ELSE "null")
    /\ dataChannel' = [dataChannel EXCEPT ![r] = "open"]
    /\ wire' = wire \cup {[to |-> Other(r), msg |-> PingMsg(r)]}
    /\ UNCHANGED <<signalingWs, peerConnection, udpCallback, offerPending, relayClients,
                   toRelay, fromRelay, delivered, sendLog, raised, connectResult>>
    /\ UNCHANGED disconnects
    /\ udpUnchanged

\* JSON.parse(event.data) 125 returns: the text is well-formed JSON.  What the
\* peer's send() put on the channel is JSON.stringify(msg) (p2p.ts 176) and
\* parses back to msg; MalformedData stands for any text that does not parse.
MalformedData(r) == [type |-> "MALFORMED", from |-> Other(r), n |-> 0]

JsonParses(data) == data.type # "MALFORMED"

\* a handler without the try/catch: the SyntaxError leaves the handler
ParseErrorEscapesMut(data) == ~JsonParses(data)

\* dataChannel.onmessage 124-129: the catch block swallows what JSON.parse (or
\* the callback) throws
ParseErrorEscapes(data) == FALSE

\* dataChannel.onmessage 123-130: JSON.parse, then the callback if one is set.
UDPNetwork_dataChannel_onmessage(r) ==
    /\ mode = "UDP_P2P"
    /\ dataChannel[r] = "open"
    /\ \E d \in wire :
        /\ d.to = r
        /\ wire' = wire \ {d}
        /\ dropped' = IF JsonParses(d.msg) THEN dropped
                      ELSE [dropped EXCEPT ![r] = Append(@, Len(delivered[r]))]
        /\ delivered' = IF JsonParses(d.msg) /\ udpCallback[r]
                        THEN [delivered EXCEPT ![r] = Append(@, d.msg)] ELSE delivered
        /\ raised' = IF ParseErrorEscapes(d.msg)
                     THEN raised \cup {<<"onmessage", r>>} ELSE raised
    /\ UNCHANGED <<signalingWs, peerConnection, dataChannel, udpCallback, offerPending,
                   relayClients, toRelay, fromRelay, sendLog, connectResult>>
    /\ UNCHANGED disconnects
    /\ UNCHANGED <<channel, localCallback, inbox, foreign, foreignSeen, mode, appVars>>

\* A datagram that is not the JSON text of a message reaches r's data channel
\* (a corrupted, truncated or foreign packet).
DataChannel_malformed(r, maxMalformed) ==
    /\ mode = "UDP_P2P"
    /\ dataChannel[r] = "open"
    /\ Len(dropped[r]) < maxMalformed
    /\ wire' = wire \cup {[to |-> r, msg |-> MalformedData(r)]}
    /\ UNCHANGED <<signalingWs, peerConnection, dataChannel, udpCallback, offerPending,
                   relayClients, toRelay, fromRelay, delivered, sendLog, raised,
                   connectResult>>
    /\ UNCHANGED disconnects
    /\ udpUnchanged

\* The channel is unreliable: a datagram in flight may be lost (maxRetransmits 0).
DataChannel_lose ==
    /\ mode = "UDP_P2P"
    /\ \E d \in wire : wire' = wire \ {d}
    /\ UNCHANGED <<signalingWs, peerConnection, dataChannel, udpCallback, offerPending,
                   relayClients, toRelay, fromRelay, delivered, sendLog, raised,
                   connectResult>>
    /\ UNCHANGED disconnects
    /\ udpUnchanged

\* onMessage(callback) 184-186.  Both callers register on the fresh adapter,
\* before connect(): App.tsx 146-147 and ConnectionSetup.tsx 18-25.
UDPNetwork_onMessage(r) ==
    /\ mode = "UDP_P2P"
    /\ ~udpCallback[r]
    /\ signalingWs[r] = "null"
    /\ udpCallback' = [udpCallback EXCEPT ![r] = TRUE]
    /\ UNCHANGED <<signalingWs, peerConnection, dataChannel, offerPending, relayClients,
                   toRelay, fromRelay, wire, delivered, sendLog, raised, connectResult>>
    /\ UNCHANGED disconnects
    /\ udpUnchanged

\* disconnect() 188-192: dataChannel?.close(); peerConnection?.close();
\* signalingWs?.close().  Each close() is a no-op on a closed object and none throws.
UdpClosed(st) == IF st = "null" THEN "null" ELSE "closed"

UDPNetwork_disconnect(r) ==
    /\ mode = "UDP_P2P"
    /\ dataChannel' = [dataChannel EXCEPT ![r] = UdpClosed(@)]
    /\ peerConnection' = [peerConnection EXCEPT ![r] = UdpClosed(@)]
    /\ signalingWs' = [signalingWs EXCEPT ![r] = UdpClosed(@)]
    /\ connectResult' = [connectResult EXCEPT ![r] =
                            IF @ = "pending" THEN "rejected" ELSE @]
    /\ disconnects' = [disconnects EXCEPT ![r] = @ \cup {DisconnectCase(signalingWs[r])}]
    /\ UNCHANGED <<udpCallback, offerPending, relayClients, toRelay, fromRelay, wire,
                   delivered, sendLog, raised>>
    /\ udpUnchanged

\* The remote end of a closed peer connection sees its data channel close.
DataChannel_onclose(r) ==
    /\ mode = "UDP_P2P"
    /\ dataChannel[r] \in {"connecting", "open"}
    /\ peerConnection[Other(r)] = "closed"
    /\ dataChannel' = [dataChannel EXCEPT ![r] = "closed"]
    /\ UNCHANGED <<signalingWs, peerConnection, udpCallback, offerPending, relayClients,
                   toRelay, fromRelay, wire, delivered, sendLog, raised, connectResult>>
    /\ UNCHANGED disconnects
    /\ udpUnchanged

NextUdp ==
    \/ UDPNetwork_createOffer
    \/ Relay_incoming
    \/ DataChannel_lose
    \/ \E r \in Roles :
        \/ UDPNetwork_connect(r)
        \/ Relay_connection(r)
        \/ UDPNetwork_onopen(r)
        \/ UDPNetwork_onerror(r)
        \/ Relay_close(r)
        \/ UDPNetwork_handleSignalingMessage(r)
        \/ UDPNetwork_send(r)
        \/ UDPNetwork_dataChannel_onopen(r)
        \/ UDPNetwork_dataChannel_onmessage(r)
        \/ UDPNetwork_onMessage(r)
        \/ UDPNetwork_disconnect(r)
        \/ DataChannel_onclose(r)

NextNet == NextLocal \/ NextUdp

\* the signaling phase on a relay that other clients use too
MaxForeign == 2

NextSignal ==
    \/ UDPNetwork_createOffer
    \/ Relay_incoming
    \/ \E type \in {"SIGNAL_OFFER", "SIGNAL_ANSWER"} : Relay_foreign(type, MaxForeign)
    \/ \E r \in Roles :
        \/ UDPNetwork_connect(r)
        \/ Relay_connection(r)
        \/ UDPNetwork_onopen(r)
        \/ UDPNetwork_onerror(r)
        \/ UDPNetwork_handleSignalingMessage(r)

\* the UDP transport from connect() to an open data channel, with malformed
\* datagrams arriving among the peer's messages
MaxMalformed == 1

NextDatagram ==
    \/ UDPNetwork_createOffer
    \/ Relay_incoming
    \/ \E r \in Roles :
        \/ UDPNetwork_onMessage(r)
        \/ UDPNetwork_connect(r)
        \/ Relay_connection(r)
        \/ UDPNetwork_onopen(r)
        \/ UDPNetwork_handleSignalingMessage(r)
        \/ UDPNetwork_send(r)
        \/ UDPNetwork_dataChannel_onopen(r)
        \/ UDPNetwork_dataChannel_onmessage(r)
        \/ DataChannel_malformed(r, MaxMalformed)


\* ========================================================================
\* The application: one App instance (src/App.tsx) and its environment
\* ========================================================================
\* ---- program constants (vertical ones in tenths of a pixel)
GRAVITY == 6
JUMP_FORCE == -120
MOVE_SPEED == 5
MAX_FALL_SPEED == 150
LEVEL_LENGTH == 4000
StartX == 100
StartY == 3000
StartRevives == 3
MaxDt == 50
PlayerWidth == 30
FeetOffset == 480
DeathY == 8000
RespawnOffset == 600
BombSpeed == 12
BombImpulse == -120
ReverseDuration == 3000
CrackLeft == 20
CrackRight == 10
CrackFeet == 500
CrackBand == 100

Min(a, b) == IF a < b THEN a ELSE b

\* Math.max, TrapperView.tsx 37
Max(a, b) == IF a > b THEN a ELSE b

TrapTypes == {"BOMB", "CRACK", "REVERSE"}

KeyCodes == {"ArrowLeft", "ArrowRight", "Space"}

\* INITIAL_GAME_STATE, App.tsx 10-27.  timeElapsed is kept in ms (the source
\* adds dt / 1000 seconds per tick).
INITIAL_GAME_STATE ==
    [isPlaying |-> FALSE,
     gameStatus |-> "IDLE",
     level |-> <<>>,
     player |-> [x |-> StartX, y |-> StartY, vx |-> 0, vy |-> 0,
                 isGrounded |-> FALSE, isDead |-> FALSE,
                 controlsReversed |-> FALSE, reverseTimer |-> 0],
     revives |-> StartRevives,
     timeElapsed |-> 0,
     levelLength |-> LEVEL_LENGTH]

\* newGame of initiateGame 175-180 and of startRemoteGame 201-206
NewGame(level) ==
    [INITIAL_GAME_STATE EXCEPT !.isPlaying = TRUE, !.gameStatus = "PLAYING",
                               !.level = level]

Platform(id, x, y, width, height) ==
    [id |-> id, x |-> x, y |-> y, width |-> width, height |-> height]

\* ---- updatePhysics, App.tsx 263-349
\* 297-301: the platform overlaps the tentative horizontal extent and the feet
\* cross its top during this tick
Lands(plat, y, nextX, nextY) ==
    /\ nextX + PlayerWidth > plat.x
    /\ nextX < plat.x + plat.width
    /\ y + FeetOffset <= plat.y
    /\ nextY + FeetOffset >= plat.y

\* 295-308: index of the first platform of the list the actor lands on, 0 if
\* none (never while moving up)
FirstHit(level, y, vy, nextX, nextY) ==
    IF vy >= 0 /\ \E i \in 1..Len(level) : Lands(level[i], y, nextX, nextY)
    THEN CHOOSE i \in 1..Len(level) :
            /\ Lands(level[i], y, nextX, nextY)
            /\ \A j \in 1..(i - 1) : ~Lands(level[j], y, nextX, nextY)
    ELSE 0

\* 325-327: filter(p.x < player.x && p.x > 0), sort by x descending, [0],
\* || level[0].  0 stands for undefined (empty level).
SafePlat(level, px) ==
    LET cand == {i \in 1..Len(level) : level[i].x < px /\ level[i].x > 0} IN
    IF cand # {}
    THEN CHOOSE i \in cand :
            \A j \in cand : level[j].x < level[i].x \/ (level[j].x = level[i].x /\ i <= j)
    ELSE IF Len(level) > 0 THEN 1 ELSE 0

\* 281-288: the vertical speed of this tick, after the jump and gravity
FallSpeed(p, keys) ==
    Min((IF "Space" \in keys /\ p.isGrounded THEN JUMP_FORCE ELSE p.vy) + GRAVITY,
        MAX_FALL_SPEED)

\* a countdown that has to pass zero before the flag is cleared
ReverseExpiredMut(reverseTimer) == reverseTimer < 0

\* 276: if (player.reverseTimer <= 0) player.controlsReversed = false
ReverseExpired(reverseTimer) == reverseTimer <= 0

\* a horizontal velocity that is kept while no direction is pressed
HorizontalVelocityMut(vx, moveDir) == IF moveDir = 0 THEN vx ELSE moveDir * MOVE_SPEED

\* 280: vx = moveDir * MOVE_SPEED, whatever vx was
HorizontalVelocity(vx, moveDir) == moveDir * MOVE_SPEED

\* 264-315: the PlayerState after the controls, the integration and the
\* collision of one tick
MovePlayer(state, keys, dt) ==
    LET p0 == state.player
        dir0 == (IF "ArrowLeft" \in keys THEN -1 ELSE 0)
                + (IF "ArrowRight" \in keys THEN 1 ELSE 0)
        moveDir == IF p0.controlsReversed THEN -dir0 ELSE dir0
        reverseTimer == IF p0.controlsReversed THEN p0.reverseTimer - dt
                        ELSE p0.reverseTimer
        controlsReversed == p0.controlsReversed /\ ~ReverseExpired(reverseTimer)
        vx == HorizontalVelocity(p0.vx, moveDir)
        vy1 == FallSpeed(p0, keys)
        nextX == p0.x + vx
        nextY0 == p0.y + vy1
        hit == FirstHit(state.level, p0.y, vy1, nextX, nextY0)
    IN  [p0 EXCEPT !.x = nextX,
                   !.y = IF hit # 0 THEN state.level[hit].y - FeetOffset ELSE nextY0,
                   !.vx = vx,
                   !.vy = IF hit # 0 THEN 0 ELSE vy1,
                   !.isGrounded = (hit # 0),
                   !.controlsReversed = controlsReversed,
                   !.reverseTimer = reverseTimer]

\* a win check that looks at the vertical position first
WinsMut(state, player) == player.x >= state.levelLength /\ player.y <= DeathY

\* 318: the win check
Wins(state, player) == player.x >= state.levelLength

\* The result of one updatePhysics(dt) call on `state` with the pressed keys:
\* threw = TRUE is the TypeError of safePlat.x on an undefined safePlat (329),
\* which leaves stateRef.current as it was.
UpdatePhysics(state, keys, dt) ==
    LET player == MovePlayer(state, keys, dt)
        safe == SafePlat(state.level, player.x)
    IN  IF Wins(state, player)
        THEN [threw |-> FALSE,
              state |-> [state EXCEPT !.player = player, !.gameStatus = "WON",
                                      !.isPlaying = FALSE]]
        ELSE IF player.y > DeathY
        THEN IF state.revives > 0
             THEN IF safe = 0
                  THEN [threw |-> TRUE, state |-> state]
                  ELSE [threw |-> FALSE,
                        state |-> [state EXCEPT
                            !.player = [player EXCEPT
                                           !.x = state.level[safe].x,
                                           !.y = state.level[safe].y - RespawnOffset,
                                           !.vx = 0, !.vy = 0],
                            !.revives = state.revives - 1]]
             ELSE [threw |-> FALSE,
                   state |-> [state EXCEPT !.player = player, !.gameStatus = "LOST",
                                           !.isPlaying = FALSE]]
        ELSE [threw |-> FALSE,
              state |-> [state EXCEPT !.player = player,
                                      !.timeElapsed = state.timeElapsed + dt]]

\* ---- handleTrapTrigger, App.tsx 211-242
\* 225-229: the feet-proximity test of the Crack effect
IsUnder(plat, p) ==
    /\ p.x + CrackLeft > plat.x
    /\ p.x + CrackRight < plat.x + plat.width
    /\ p.y + CrackFeet >= plat.y
    /\ p.y + CrackFeet <= plat.y + CrackBand

\* level.find(...): index of the first platform under the actor, 0 if none
PlatformUnder(level, p) ==
    IF \E i \in 1..Len(level) : IsUnder(level[i], p)
    THEN CHOOSE i \in 1..Len(level) :
            /\ IsUnder(level[i], p)
            /\ \A j \in 1..(i - 1) : ~IsUnder(level[j], p)
    ELSE 0

\* level.filter(pl => pl.id !== id)
RemoveId(level, id) ==
    LET Keep(pl) == pl.id # id IN SelectSeq(level, Keep)

\* 219-223: the Bomb effect on the PlayerState
BombEffect(p, sign) ==
    [p EXCEPT !.vx = sign * BombSpeed, !.vy = BombImpulse, !.isGrounded = FALSE]

\* a Crack effect that also pushes the actor down
CrackEffectMut(state) ==
    LET under == PlatformUnder(state.level, state.player) IN
    [state EXCEPT !.level = IF under # 0 THEN RemoveId(@, @[under].id) ELSE @,
                  !.player = [@ EXCEPT !.vy = @ + GRAVITY]]

\* 224-233: the Crack effect on the GameState
CrackEffect(state) ==
    LET under == PlatformUnder(state.level, state.player) IN
    IF under # 0
    THEN [state EXCEPT !.level = RemoveId(state.level, state.level[under].id)]
    ELSE state

\* a Reverse effect that extends the countdown
ReverseEffectMut(p) ==
    [p EXCEPT !.controlsReversed = TRUE, !.reverseTimer = @ + ReverseDuration]

\* 234-237: the Reverse effect on the PlayerState
ReverseEffect(p) == [p EXCEPT !.controlsReversed = TRUE, !.reverseTimer = ReverseDuration]

\* The state handleTrapTrigger(trapType) leaves in stateRef.current; `sign` is
\* the outcome of Math.random() > 0.5 (1 or -1).
HandleTrapTrigger(state, trapType, sign) ==
    IF state.gameStatus # "PLAYING" THEN state
    ELSE IF trapType = "BOMB" THEN [state EXCEPT !.player = BombEffect(@, sign)]
    ELSE IF trapType = "CRACK" THEN CrackEffect(state)
    ELSE IF trapType = "REVERSE" THEN [state EXCEPT !.player = ReverseEffect(@)]
    ELSE state

\* ---- the App component's state after its first render, App.tsx 30-51
AppIdle ==
    /\ screen = "MENU"
    /\ role = "null"
    /\ network = "null"
    /\ link = "none"
    /\ callback = "none"
    /\ cbRole = "null"
    /\ cbScreen = "MENU"
    /\ isOpponentConnected = FALSE
    /\ chatHistory = <<>>
    /\ pendingStart = "none"
    /\ generation = "none"
    /\ heartbeat = FALSE
    /\ stateRef = INITIAL_GAME_STATE
    /\ gameState = INITIAL_GAME_STATE
    /\ keysPressed = {}
    /\ frames = 0
    /\ running = 0
    /\ gap = 0
    /\ crashed = FALSE
    /\ ticks = 0
    /\ inputs = 0
    /\ sessions = 0
    /\ appOp = [op |-> "none", arg |-> "", prev |-> INITIAL_GAME_STATE,
                last |-> [op |-> "none", arg |-> "", effect |-> FALSE]]
    /\ sent = <<>>
    /\ cooldowns = [t \in TrapTypes |-> 0]
    /\ sinceTrap = [t \in TrapTypes |-> -1]

InitNet == mode \in {"LOCAL", "UDP_P2P"} /\ NetIdle /\ AppIdle

SpecNet == InitNet /\ [][NextNet]_vars

\* the UDP transport alone
InitUdp == mode = "UDP_P2P" /\ NetIdle /\ AppIdle

SpecSignal == InitUdp /\ [][NextSignal]_vars

SpecDatagram == InitUdp /\ [][NextDatagram]_vars

\* ---- the negotiation in every order of the two connect() calls, up to the
\* open data channel and the messages on it: no socket closes and no other
\* client uses the relay.  The relay, the socket events and the awaited
\* WebRTC calls are not held up for ever: each is weakly fair.
NextNegotiate ==
    \/ UDPNetwork_createOffer
    \/ Relay_incoming
    \/ \E r \in Roles :
        \/ UDPNetwork_onMessage(r)
        \/ UDPNetwork_connect(r)
        \/ Relay_connection(r)
        \/ UDPNetwork_onopen(r)
        \/ UDPNetwork_handleSignalingMessage(r)
        \/ UDPNetwork_send(r)
        \/ UDPNetwork_dataChannel_onopen(r)
        \/ UDPNetwork_dataChannel_onmessage(r)

SpecNegotiate ==
    /\ InitUdp
    /\ [][NextNegotiate]_vars
    /\ WF_vars(UDPNetwork_createOffer)
    /\ WF_vars(Relay_incoming)
    /\ \A r \in Roles : /\ WF_vars(Relay_connection(r))
                         /\ WF_vars(UDPNetwork_onopen(r))
                         /\ WF_vars(UDPNetwork_handleSignalingMessage(r))

\* ---- the App component, App.tsx 29-356
\* A frame's callbacks run back to back: no other handler runs between them.
\* A committed render's passive effects run before the next handler.
SetupEffectPending == screen = "CONNECTION" /\ callback = "dispatcher"

Quiet == running = 0 /\ ~SetupEffectPending

Msg(type, payload) == [type |-> type, payload |-> payload]

\* what adapter.send(msgs...) puts on the transport when the adapter is in
\* state `lk` (UDPNetwork.send drops while the data channel is not open)
Transmitted(net, lk, msgs) == IF net # "null" /\ lk = "open" THEN msgs ELSE <<>>

\* a heartbeat that runs in the lobby only
HeartbeatOnMut(scr, rl, net) == scr = "LOBBY" /\ rl # "null" /\ net # "null"

\* the heartbeat effect's condition, App.tsx 105
HeartbeatOn(scr, rl, net) == scr \in {"LOBBY", "GAME"} /\ rl # "null" /\ net # "null"

\* 104-114 re-run after a render that changed screen or role: what the effect
\* announces
Announce(scr, rl, net) ==
    IF (scr # screen \/ rl # role) /\ HeartbeatOn(scr, rl, net)
    THEN <<Msg("JOIN_LOBBY", rl)>> ELSE <<>>

\* 104-114: whether the interval is installed after the render
HeartbeatAfter(scr, rl, net) ==
    IF scr # screen \/ rl # role THEN HeartbeatOn(scr, rl, net) ELSE heartbeat

\* ---- TrapperView, src/components/TrapperView.tsx (App.tsx renders it on the
\* game screen for the Trapper; its state lives as long as it is mounted)
Mounted(scr, rl) == scr = "GAME" /\ rl = "TRAPPER"

\* TrapperView.tsx 11-15: the initial cooldowns of a mounted view
NoCooldowns == [t \in TrapTypes |-> 0]

\* TrapperView.tsx 17-21
COOLDOWN_TIMES == [BOMB |-> 3000, CRACK |-> 5000, REVERSE |-> 8000]

\* TrapperView.tsx 37, 41: the timer's period and its decrement
CooldownStep == 100

\* the view's cooldowns after a render with screen `scr` and role `rl`: an
\* unmounted view keeps nothing, the next mount starts from useState's
\* initial value
CooldownsAfter(scr, rl) == IF Mounted(scr, rl) THEN cooldowns ELSE NoCooldowns

Op(op, arg) ==
    [op |-> op, arg |-> arg, prev |-> stateRef,
     last |-> [op |-> appOp.op, arg |-> appOp.arg, effect |-> appOp.prev # stateRef]]

\* handleModeSelect, App.tsx 134-151, with setupNetworkListeners 64-101 (the
\* dispatcher closes over the `role` and `screen` of the render whose menu
\* button was clicked) and the heartbeat effect of the following render
handleModeSelect(selectedRole, m, maxSessions) ==
    /\ screen = "MENU" /\ Quiet
    /\ sessions < maxSessions
    /\ role' = selectedRole
    /\ network' = m
    /\ link' = IF m = "LOCAL" THEN "open" ELSE "idle"
    /\ callback' = "dispatcher"
    /\ cbRole' = role
    /\ cbScreen' = screen
    /\ screen' = IF m = "LOCAL" THEN "LOBBY" ELSE "CONNECTION"
    /\ heartbeat' = HeartbeatAfter(screen', selectedRole, m)
    /\ sent' = Transmitted(m, link', Announce(screen', selectedRole, m))
    /\ sessions' = sessions + 1
    /\ appOp' = Op("handleModeSelect", m)
    /\ UNCHANGED <<isOpponentConnected, chatHistory, pendingStart, generation, stateRef, gameState,
                   keysPressed, frames, running, gap, crashed, ticks, inputs>>
    /\ UNCHANGED <<netVars, viewVars>>

\* ConnectionSetup's effect, ConnectionSetup.tsx 18-25: network.onMessage(...)
\* overwrites the adapter's one callback slot
ConnectionSetup_useEffect ==
    /\ SetupEffectPending
    /\ running = 0
    /\ callback' = "setup"
    /\ appOp' = Op("ConnectionSetup_useEffect", "")
    /\ sent' = <<>>
    /\ UNCHANGED <<screen, role, network, link, cbRole, cbScreen, isOpponentConnected,
                   chatHistory, pendingStart, generation, heartbeat, stateRef, gameState, keysPressed,
                   frames, running, gap, crashed, ticks, inputs, sessions>>
    /\ UNCHANGED <<netVars, viewVars>>

linkUnchanged == UNCHANGED <<screen, role, network, callback, cbRole, cbScreen,
                             isOpponentConnected, chatHistory, pendingStart, generation, heartbeat,
                             stateRef, gameState, keysPressed, frames, running, gap,
                             crashed, ticks, inputs, sessions>>

\* handleConnect, ConnectionSetup.tsx 27-51, up to the await (isConnecting is
\* true from here until the catch)
handleConnect ==
    /\ screen = "CONNECTION" /\ Quiet
    /\ link \in {"idle", "failed"}
    /\ link' = "connecting"
    /\ appOp' = Op("handleConnect", "")
    /\ sent' = <<>>
    /\ linkUnchanged
    /\ UNCHANGED <<netVars, viewVars>>

\* the awaited network.connect() settles: resolved (signaling open, 66-70) or
\* rejected (72-75, then the catch of handleConnect 47-50)
handleConnect_settled(ok) ==
    /\ link = "connecting" /\ Quiet
    /\ link' = IF ok THEN "signaling" ELSE "failed"
    /\ appOp' = Op("handleConnect_settled", IF ok THEN "resolved" ELSE "rejected")
    /\ sent' = <<>>
    /\ linkUnchanged
    /\ UNCHANGED <<netVars, viewVars>>

\* the adapter's data channel opens, p2p.ts 118-122: it sends the PING
dataChannel_onopen ==
    /\ link = "signaling" /\ Quiet
    /\ link' = "open"
    /\ appOp' = Op("dataChannel_onopen", "")
    /\ sent' = <<Msg("PING", "")>>
    /\ linkUnchanged
    /\ UNCHANGED <<netVars, viewVars>>

\* the [screen] effect after setScreen('MENU'), App.tsx 54-62, with the cleanup
\* of the heartbeat effect 112
handleBack ==
    /\ screen # "MENU" /\ Quiet
    /\ screen' = "MENU"
    /\ network' = "null"
    /\ link' = IF link = "none" THEN "none" ELSE "closed"
    /\ isOpponentConnected' = FALSE
    /\ chatHistory' = <<>>
    /\ heartbeat' = FALSE
    /\ appOp' = Op("handleBack", "")
    /\ sent' = <<>>
    /\ cooldowns' = CooldownsAfter("MENU", role)
    /\ UNCHANGED <<role, callback, cbRole, cbScreen, pendingStart, generation, stateRef, gameState,
                   keysPressed, frames, running, gap, crashed, ticks, inputs, sessions>>
    /\ UNCHANGED <<netVars, sinceTrap>>

\* the presence interval fires, App.tsx 109-111
heartbeat_interval ==
    /\ heartbeat /\ Quiet
    /\ appOp' = Op("heartbeat_interval", "")
    /\ sent' = Transmitted(network, link, <<Msg("JOIN_LOBBY", role)>>)
    /\ UNCHANGED <<screen, role, network, link, callback, cbRole, cbScreen,
                   isOpponentConnected, chatHistory, pendingStart, generation, heartbeat, stateRef,
                   gameState, keysPressed, frames, running, gap, crashed, ticks, inputs,
                   sessions>>
    /\ UNCHANGED <<netVars, viewVars>>

\* LobbyView disables both start buttons while isLoading (part_000 85-102)
isLoading == pendingStart # "none"

\* What ai.models.generateContent can hand to generateLevel (part_001 27-46):
\* a rejection, a response without text, text that JSON.parse refuses, JSON
\* that is no array, or an array `data`.
ResponseKinds == {"rejected", "noText", "unparsable", "notArray", "array"}

\* the id `plat-${index}` of part_001 51
PlatId(index) == <<"plat-0", "plat-1", "plat-2">>[index + 1]

\* generateLevel, part_001 58-73: the list returned by the catch block
\* (y in tenths of a pixel)
FallbackLevel ==
    <<Platform("start", 50, 4000, 400, 40), Platform("1", 500, 3500, 150, 30),
      Platform("2", 700, 4500, 150, 30), Platform("3", 900, 3000, 100, 30),
      Platform("4", 1100, 4000, 200, 30), Platform("5", 1400, 3500, 100, 30),
      Platform("6", 1600, 2500, 150, 30), Platform("7", 1900, 4000, 300, 30),
      Platform("8", 2300, 3500, 100, 30), Platform("9", 2500, 2500, 100, 30),
      Platform("10", 2700, 3500, 150, 30), Platform("11", 3000, 4000, 200, 30),
      Platform("12", 3300, 3000, 150, 30), Platform("13", 3600, 4000, 400, 30)>>

\* generateLevel, part_001 7-75, once generateContent has settled: an array
\* is returned with ids added, everything else lands in the catch block.
generateLevel(response) ==
    IF response.kind = "array"
    THEN [i \in 1..Len(response.data) |->
             Platform(PlatId(i - 1), response.data[i].x, response.data[i].y,
                      response.data[i].width, response.data[i].height)]
    ELSE FallbackLevel

\* generateLevel, part_001 27: generateContent never settles. The await has
\* no timeout and no cancellation, so initiateGame is never resumed.
generateLevel_unanswered ==
    /\ generation = "pending"
    /\ generation' = "unanswered"
    /\ UNCHANGED <<screen, role, network, link, callback, cbRole, cbScreen,
                   isOpponentConnected, chatHistory, pendingStart, heartbeat, stateRef,
                   gameState, keysPressed, frames, running, gap, crashed, ticks, inputs,
                   sessions, appOp, sent>>
    /\ UNCHANGED <<netVars, viewVars>>

\* initiateGame, App.tsx 170-172: up to the await of generateLevel()
initiateGame ==
    /\ screen = "LOBBY" /\ Quiet
    /\ ~isLoading
    /\ pendingStart' = role
    /\ generation' = "pending"
    /\ appOp' = Op("initiateGame", "")
    /\ sent' = <<>>
    /\ UNCHANGED <<screen, role, network, link, callback, cbRole, cbScreen,
                   isOpponentConnected, chatHistory, heartbeat, stateRef, gameState,
                   keysPressed, frames, running, gap, crashed, ticks, inputs, sessions>>
    /\ UNCHANGED <<netVars, viewVars>>

\* initiateGame, App.tsx 173-196: generateLevel() resolved with generatedLevel.
\* `role` is the one of the render whose start button was clicked.
initiateGame_resumed(generatedLevel) ==
    /\ isLoading /\ Quiet
    /\ generation = "pending"
    /\ pendingStart' = "none"
    /\ generation' = "none"
    /\ stateRef' = NewGame(generatedLevel)
    /\ gameState' = NewGame(generatedLevel)
    /\ screen' = "GAME"
    /\ heartbeat' = HeartbeatAfter("GAME", role, network)
    /\ sent' = Transmitted(network, link,
                   <<Msg("START_GAME", generatedLevel)>> \o Announce("GAME", role, network))
    /\ frames' = IF pendingStart = "RUNNER" THEN frames + 1 ELSE frames
    /\ appOp' = Op("initiateGame_resumed", "")
    /\ UNCHANGED <<role, network, link, callback, cbRole, cbScreen, isOpponentConnected,
                   chatHistory, keysPressed, running, gap, crashed, ticks, inputs,
                   sessions>>
    /\ UNCHANGED <<netVars, viewVars>>

OpponentAfterMut(flag, present) == present

\* setupNetworkListeners, App.tsx 67, 73, 78: the dispatcher only ever calls
\* setIsOpponentConnected(true)
OpponentAfter(flag, present) == present \/ flag

\* a dispatcher that also acknowledges an acknowledgement
RepliesMut(type, joins) == type \in {"PING", "ACK_JOIN"} \/ joins

\* App.tsx 70, 75: the two adapter.send({ type: 'ACK_JOIN' }) of the dispatcher
Replies(type, joins) == type = "PING" \/ joins

\* the callback setupNetworkListeners registers, App.tsx 65-100; `sign` is the
\* outcome of Math.random() in the Bomb effect
Dispatch(msg, sign) ==
    LET type == msg.type
        joins == type = "JOIN_LOBBY" /\ cbScreen \in {"LOBBY", "CONNECTION"}
        present == type \in {"PING", "ACK_JOIN"} \/ joins
        replies == Replies(type, joins)
        starts == type = "START_GAME" /\ cbRole = "TRAPPER"
    IN  /\ isOpponentConnected' = OpponentAfter(isOpponentConnected, present)
        /\ chatHistory' = IF type = "CHAT_MSG" THEN Append(chatHistory, msg.payload)
                          ELSE chatHistory
        /\ gameState' = IF starts THEN NewGame(msg.payload)
                        ELSE IF type = "STATE_UPDATE" /\ cbRole = "TRAPPER" THEN msg.payload
                        ELSE gameState
        /\ screen' = IF starts THEN "GAME" ELSE screen
        /\ stateRef' = IF type = "TRAP_TRIGGER" /\ cbRole = "RUNNER"
                       THEN HandleTrapTrigger(stateRef, msg.payload, sign)
                       ELSE stateRef
        /\ heartbeat' = HeartbeatAfter(screen', role, network)
        /\ sent' = Transmitted(network, link,
                       (IF replies THEN <<Msg("ACK_JOIN", "")>> ELSE <<>>)
                       \o Announce(screen', role, network))

\* the callback ConnectionSetup registers, ConnectionSetup.tsx 20-24;
\* onConnected is handleRemoteConnected, App.tsx 153-155
SetupCallback(msg) ==
    /\ screen' = IF msg.type \in {"PING", "JOIN_LOBBY", "ACK_JOIN"} THEN "LOBBY" ELSE screen
    /\ heartbeat' = HeartbeatAfter(screen', role, network)
    /\ sent' = Transmitted(network, link, Announce(screen', role, network))
    /\ UNCHANGED <<isOpponentConnected, chatHistory, gameState, stateRef>>

\* the adapter hands an inbound message to its messageCallback
\* (p2p.ts 22-24, 123-126)
Receive(msg, sign, maxInputs) ==
    /\ network # "null" /\ link = "open" /\ Quiet
    /\ inputs < maxInputs
    /\ IF callback = "setup" THEN SetupCallback(msg) ELSE Dispatch(msg, sign)
    /\ inputs' = inputs + 1
    /\ appOp' = Op(msg.type, IF msg.type = "TRAP_TRIGGER" THEN msg.payload
                             ELSE IF msg.type = "STATE_UPDATE" THEN msg.payload.gameStatus
                             ELSE "")
    /\ cooldowns' = CooldownsAfter(screen', role)
    /\ UNCHANGED <<role, network, link, callback, cbRole, cbScreen, pendingStart, generation,
                   keysPressed, frames, running, gap, crashed, ticks, sessions>>
    /\ UNCHANGED <<netVars, sinceTrap>>

keyUnchanged == UNCHANGED <<screen, role, network, link, callback, cbRole, cbScreen,
                            isOpponentConnected, chatHistory, pendingStart, generation, heartbeat,
                            stateRef, gameState, frames, running, gap, crashed, ticks,
                            sessions>>

\* handleKeyDown, App.tsx 117-120: listening only as Runner on the game screen
handleKeyDown(code, maxInputs) ==
    /\ role = "RUNNER" /\ screen = "GAME" /\ Quiet
    /\ inputs < maxInputs
    /\ code \notin keysPressed
    /\ keysPressed' = keysPressed \cup {code}
    /\ inputs' = inputs + 1
    /\ appOp' = Op("handleKeyDown", code)
    /\ sent' = <<>>
    /\ keyUnchanged
    /\ UNCHANGED <<netVars, viewVars>>

\* handleKeyUp, App.tsx 121
handleKeyUp(code, maxInputs) ==
    /\ role = "RUNNER" /\ screen = "GAME" /\ Quiet
    /\ inputs < maxInputs
    /\ code \in keysPressed
    /\ keysPressed' = keysPressed \ {code}
    /\ inputs' = inputs + 1
    /\ appOp' = Op("handleKeyUp", code)
    /\ sent' = <<>>
    /\ keyUnchanged
    /\ UNCHANGED <<netVars, viewVars>>

\* the browser starts an animation frame `elapsed` ms after lastTimeRef.current:
\* every callback requested so far runs in this frame, with one timestamp
AnimationFrame(elapsed, maxTicks) ==
    /\ frames > 0 /\ Quiet
    /\ ticks + frames <= maxTicks
    /\ running' = frames
    /\ frames' = 0
    /\ gap' = elapsed
    /\ appOp' = Op("AnimationFrame", "")
    /\ sent' = <<>>
    /\ UNCHANGED <<screen, role, network, link, callback, cbRole, cbScreen,
                   isOpponentConnected, chatHistory, pendingStart, generation, heartbeat, stateRef,
                   gameState, keysPressed, crashed, ticks, inputs, sessions>>
    /\ UNCHANGED <<netVars, viewVars>>

\* gameLoop, App.tsx 244-261: one requested callback runs
gameLoop ==
    /\ running > 0
    /\ LET deltaTime == Min(gap, MaxDt)
           r == UpdatePhysics(stateRef, keysPressed, deltaTime)
       IN  /\ stateRef' = r.state
           /\ crashed' = (crashed \/ r.threw)
           /\ gameState' = IF r.threw THEN gameState ELSE r.state
           /\ sent' = IF r.threw THEN <<>>
                      ELSE Transmitted(network, link, <<Msg("STATE_UPDATE", r.state)>>)
           /\ frames' = IF ~r.threw /\ r.state.gameStatus = "PLAYING"
                        THEN frames + 1 ELSE frames
    /\ gap' = 0
    /\ running' = running - 1
    /\ ticks' = ticks + 1
    /\ appOp' = Op("gameLoop", "")
    /\ UNCHANGED <<screen, role, network, link, callback, cbRole, cbScreen,
                   isOpponentConnected, chatHistory, pendingStart, generation, heartbeat, keysPressed,
                   inputs, sessions>>
    /\ UNCHANGED <<netVars, viewVars>>

\* handleTrap, TrapperView.tsx 24-25: neither early return is taken
TrapReady(type, status) == cooldowns[type] = 0 /\ status = "PLAYING"

\* handleTrap, TrapperView.tsx 23-29, with sendTrap, App.tsx 351-356: a click
\* on the trap button of `type`
handleTrap(type, maxInputs) ==
    /\ Mounted(screen, role) /\ Quiet
    /\ inputs < maxInputs
    /\ inputs' = inputs + 1
    /\ appOp' = Op("handleTrap", type)
    /\ IF TrapReady(type, gameState.gameStatus)
       THEN /\ sent' = Transmitted(network, link, <<Msg("TRAP_TRIGGER", type)>>)
            /\ cooldowns' = [cooldowns EXCEPT ![type] = COOLDOWN_TIMES[type]]
            /\ sinceTrap' = IF sent' # <<>> THEN [sinceTrap EXCEPT ![type] = 0]
                            ELSE sinceTrap
       ELSE /\ sent' = <<>>
            /\ UNCHANGED viewVars
    /\ UNCHANGED <<screen, role, network, link, callback, cbRole, cbScreen,
                   isOpponentConnected, chatHistory, pendingStart, generation, heartbeat,
                   stateRef, gameState, keysPressed, frames, running, gap, crashed, ticks,
                   sessions>>
    /\ UNCHANGED netVars

\* TrapperView.tsx 34-40: the update the cooldown timer applies
Cooled(cds) ==
    [t \in TrapTypes |-> IF cds[t] > 0 THEN Max(0, cds[t] - CooldownStep) ELSE cds[t]]

\* the cooldown timer of the mounted view fires, TrapperView.tsx 32-43 (a
\* firing that finds every cooldown at 0 changes nothing)
TrapperView_interval ==
    /\ Mounted(screen, role) /\ Quiet
    /\ cooldowns' = Cooled(cooldowns)
    /\ sinceTrap' = [t \in TrapTypes |->
                        IF sinceTrap[t] >= 0
                        THEN Min(sinceTrap[t] + 1, COOLDOWN_TIMES[t] \div CooldownStep)
                        ELSE sinceTrap[t]]
    /\ viewVars' # viewVars
    /\ appOp' = Op("TrapperView_interval", "")
    /\ sent' = <<>>
    /\ UNCHANGED <<screen, role, network, link, callback, cbRole, cbScreen,
                   isOpponentConnected, chatHistory, pendingStart, generation, heartbeat,
                   stateRef, gameState, keysPressed, frames, running, gap, crashed, ticks,
                   inputs, sessions>>
    /\ UNCHANGED netVars

\* ---- levels generateLevel() can resolve with (part_001 7-75): the model's
\* reply is any JSON array of platforms, ids are plat-<index>; y in tenths
StackLevel ==
    <<Platform("plat-0", 50, 3740, 400, 20), Platform("plat-1", 50, 3700, 400, 20)>>

PitLevel == <<Platform("plat-0", 50, 9000, 400, 20)>>

GoalLevel == <<Platform("plat-0", 4000, 9000, 400, 20)>>

EmptyLevel == <<>>

\* bounds of the three explorations: handleModeSelect calls, inbound messages
\* and key events, gameLoop calls
MaxSessions == 2
MaxInputsSim == 2
MaxTicksSim == 9
MaxTicksFall == 49
MaxInputsApp == 2
MaxTicksApp == 2

\* frame intervals: a 60 Hz frame and a stalled one (clamped to MaxDt)
Gaps == {16, 70}

InitApp == mode = "LOCAL" /\ NetIdle /\ AppIdle

\* ---- the Runner's simulation on the loopback transport: ticks, keys, traps
NextSim ==
    \/ handleModeSelect("RUNNER", "LOCAL", MaxSessions)
    \/ handleBack
    \/ initiateGame
    \/ initiateGame_resumed(StackLevel)
    \/ \E t \in {"CRACK", "REVERSE"} : Receive(Msg("TRAP_TRIGGER", t), 1, MaxInputsSim)
    \/ \E sign \in {-1, 1} : Receive(Msg("TRAP_TRIGGER", "BOMB"), sign, MaxInputsSim)
    \/ \E code \in KeyCodes : handleKeyDown(code, MaxInputsSim)
    \/ \E code \in KeyCodes : handleKeyUp(code, MaxInputsSim)
    \/ AnimationFrame(16, MaxTicksSim)
    \/ gameLoop

SpecSim == InitApp /\ [][NextSim]_vars

\* Crack intents on a level whose platform begins 25 to the right of the
\* start position: the actor lands on its left edge.  The dispatcher hands
\* traps to handleTrapTrigger from the second Runner session on.
EdgeLevel == <<Platform("plat-0", 125, 3740, 400, 20)>>

MaxInputsEdge == 2
MaxTicksEdge == 10

NextEdge ==
    \/ handleModeSelect("RUNNER", "LOCAL", MaxSessions)
    \/ handleBack
    \/ initiateGame
    \/ \E lv \in {EdgeLevel, StackLevel} : initiateGame_resumed(lv)
    \/ Receive(Msg("TRAP_TRIGGER", "CRACK"), 1, MaxInputsEdge)
    \/ AnimationFrame(16, MaxTicksEdge)
    \/ gameLoop

SpecEdge == InitApp /\ [][NextEdge]_vars

\* A Reverse intent and its whole countdown: the actor stands on StackLevel
\* with frames 70 ms apart (each tick counts the clamped 50 ms, a second
\* callback of the same frame counts 0), for more ticks than the 60 the
\* countdown lasts.  No key is pressed: SpecSim has the reversed movement.
MaxInputsReverse == 1
MaxTicksReverse == 61

NextReverse ==
    \/ handleModeSelect("RUNNER", "LOCAL", MaxSessions)
    \/ handleBack
    \/ initiateGame
    \/ initiateGame_resumed(StackLevel)
    \/ Receive(Msg("TRAP_TRIGGER", "REVERSE"), 1, MaxInputsReverse)
    \/ AnimationFrame(70, MaxTicksReverse)
    \/ gameLoop

SpecReverse == InitApp /\ [][NextReverse]_vars

\* Bomb intents during a fall into the pit, down to the first death: the
\* Runner's second session (whose dispatcher passes trap intents on).  No
\* key is pressed: SpecSim has Bombs with keys, SpecGoal deaths with keys.
MaxInputsBomb == 1
MaxTicksBomb == 46

NextBomb ==
    \/ handleModeSelect("RUNNER", "LOCAL", MaxSessions)
    \/ handleBack
    \/ initiateGame
    \/ initiateGame_resumed(PitLevel)
    \/ \E sign \in {-1, 1} : Receive(Msg("TRAP_TRIGGER", "BOMB"), sign, MaxInputsBomb)
    \/ AnimationFrame(16, MaxTicksBomb)
    \/ gameLoop

SpecBomb == InitApp /\ [][NextBomb]_vars

\* The Trapper on the loopback transport: sessions that start a game (the
\* Trapper's own start button), clicks on the three trap buttons, the
\* cooldown timer, a snapshot of a lost game, and leaving to the menu.
MaxInputsTrapper == 2

LostSnapshot == [NewGame(StackLevel) EXCEPT !.gameStatus = "LOST", !.revives = 0]

NextTrapper ==
    \/ handleModeSelect("TRAPPER", "LOCAL", MaxSessions)
    \/ handleBack
    \/ initiateGame
    \/ initiateGame_resumed(StackLevel)
    \/ Receive(Msg("STATE_UPDATE", LostSnapshot), 1, MaxInputsTrapper)
    \/ \E t \in TrapTypes : handleTrap(t, MaxInputsTrapper)
    \/ TrapperView_interval

SpecTrapper == InitApp /\ [][NextTrapper]_vars

\* ---- long falls: levels on which the actor drops past the death threshold
NextFall ==
    \/ \E r \in Roles : handleModeSelect(r, "LOCAL", MaxSessions)
    \/ handleBack
    \/ initiateGame
    \/ \E lv \in {PitLevel, GoalLevel, EmptyLevel} : initiateGame_resumed(lv)
    \/ AnimationFrame(16, MaxTicksFall)
    \/ gameLoop

SpecFall == InitApp /\ [][NextFall]_vars

\* ---- a fall next to the level end: the respawn platform is one pixel short
\* of the level length, the keys decide whether the next tick crosses it; the
\* user stays in the one session
NearGoalLevel == <<Platform("plat-0", 3999, 9000, 400, 20)>>

MaxInputsGoal == 2
MaxTicksGoal == 48

NextGoal ==
    \/ handleModeSelect("RUNNER", "LOCAL", MaxSessions)
    \/ initiateGame
    \/ initiateGame_resumed(NearGoalLevel)
    \/ \E code \in KeyCodes : handleKeyDown(code, MaxInputsGoal)
    \/ \E code \in KeyCodes : handleKeyUp(code, MaxInputsGoal)
    \/ AnimationFrame(16, MaxTicksGoal)
    \/ gameLoop

SpecGoal == InitApp /\ [][NextGoal]_vars

\* Falls on a level whose list starts with a platform ahead of the start
\* position and holds a platform at x = 0 behind it (both below the death
\* line, so the actor never lands).
ZeroLevel ==
    <<Platform("plat-0", 500, 9000, 100, 20), Platform("plat-1", 0, 9500, 400, 20)>>

MaxInputsRevive == 1
MaxTicksRevive == 47

NextRevive ==
    \/ handleModeSelect("RUNNER", "LOCAL", MaxSessions)
    \/ initiateGame
    \/ initiateGame_resumed(ZeroLevel)
    \/ \E code \in KeyCodes : handleKeyDown(code, MaxInputsRevive)
    \/ AnimationFrame(16, MaxTicksRevive)
    \/ gameLoop

SpecRevive == InitApp /\ [][NextRevive]_vars

\* Starting a game against every kind of answer of the generation service,
\* the answer that never comes included. A settled promise resumes
\* initiateGame and a scheduled frame callback runs: both are weakly fair.
RawLevel == <<[x |-> 50, y |-> 3740, width |-> 400, height |-> 20]>>

Responses ==
    {[kind |-> k, data |-> <<>>] : k \in ResponseKinds}
        \cup {[kind |-> "array", data |-> RawLevel]}

MaxTicksStart == 2

initiateGame_settled == \E response \in Responses : initiateGame_resumed(generateLevel(response))

NextStart ==
    \/ \E r \in Roles : handleModeSelect(r, "LOCAL", MaxSessions)
    \/ handleBack
    \/ initiateGame
    \/ initiateGame_settled
    \/ generateLevel_unanswered
    \/ \E g \in Gaps : AnimationFrame(g, MaxTicksStart)
    \/ gameLoop

SpecStart ==
    InitApp /\ [][NextStart]_vars /\ WF_vars(initiateGame_settled) /\ WF_vars(gameLoop)

\* ---- the session controller on both transports, all inbound message kinds
ChatTexts == {"gl"}

Snapshots == {NewGame(FallbackLevel), [NewGame(FallbackLevel) EXCEPT !.gameStatus = "LOST",
                                                                   !.isPlaying = FALSE]}

NextApp ==
    \/ \E r \in Roles, m \in {"LOCAL", "UDP_P2P"} : handleModeSelect(r, m, MaxSessions)
    \/ ConnectionSetup_useEffect
    \/ handleConnect
    \/ \E ok \in BOOLEAN : handleConnect_settled(ok)
    \/ dataChannel_onopen
    \/ handleBack
    \/ heartbeat_interval
    \/ initiateGame
    \/ initiateGame_resumed(FallbackLevel)
    \/ \E type \in {"PING", "ACK_JOIN"} : Receive(Msg(type, ""), 1, MaxInputsApp)
    \/ \E r \in Roles : Receive(Msg("JOIN_LOBBY", r), 1, MaxInputsApp)
    \/ \E text \in ChatTexts : Receive(Msg("CHAT_MSG", text), 1, MaxInputsApp)
    \/ Receive(Msg("START_GAME", FallbackLevel), 1, MaxInputsApp)
    \/ \E snapshot \in Snapshots : Receive(Msg("STATE_UPDATE", snapshot), 1, MaxInputsApp)
    \/ \E t \in TrapTypes : Receive(Msg("TRAP_TRIGGER", t), 1, MaxInputsApp)
    \/ \E g \in Gaps : AnimationFrame(g, MaxTicksApp)
    \/ gameLoop

SpecApp == InitApp /\ [][NextApp]_vars

\* The session controller without the frame loop: entering and leaving
\* sessions on both transports, the connection steps, the heartbeat timer,
\* the start of a game and every inbound message kind.
NextLobby ==
    \/ \E r \in Roles, m \in {"LOCAL", "UDP_P2P"} : handleModeSelect(r, m, MaxSessions)
    \/ ConnectionSetup_useEffect
    \/ handleConnect
    \/ \E ok \in BOOLEAN : handleConnect_settled(ok)
    \/ dataChannel_onopen
    \/ handleBack
    \/ heartbeat_interval
    \/ initiateGame
    \/ initiateGame_resumed(FallbackLevel)
    \/ \E type \in {"PING", "ACK_JOIN"} : Receive(Msg(type, ""), 1, MaxInputsApp)
    \/ \E r \in Roles : Receive(Msg("JOIN_LOBBY", r), 1, MaxInputsApp)
    \/ \E text \in ChatTexts : Receive(Msg("CHAT_MSG", text), 1, MaxInputsApp)
    \/ Receive(Msg("START_GAME", FallbackLevel), 1, MaxInputsApp)
    \/ \E snapshot \in Snapshots : Receive(Msg("STATE_UPDATE", snapshot), 1, MaxInputsApp)
    \/ \E t \in TrapTypes : Receive(Msg("TRAP_TRIGGER", t), 1, MaxInputsApp)

SpecLobby == InitApp /\ [][NextLobby]_vars

\* The Trapper on the negotiated transport, whose data channel is unordered
\* (p2p.ts 102-105): snapshots of the Runner, the terminal one among them,
\* arrive in any order.  A committed render's effect and an installed
\* interval are not held up for ever: both are weakly fair.
MaxInputsStale == 3

NextStale ==
    \/ handleModeSelect("TRAPPER", "UDP_P2P", MaxSessions)
    \/ ConnectionSetup_useEffect
    \/ handleConnect
    \/ \E ok \in BOOLEAN : handleConnect_settled(ok)
    \/ dataChannel_onopen
    \/ handleBack
    \/ heartbeat_interval
    \/ initiateGame
    \/ initiateGame_resumed(FallbackLevel)
    \/ Receive(Msg("PING", ""), 1, MaxInputsStale)
    \/ Receive(Msg("START_GAME", FallbackLevel), 1, MaxInputsStale)
    \/ \E snapshot \in Snapshots : Receive(Msg("STATE_UPDATE", snapshot), 1, MaxInputsStale)

SpecStale ==
    /\ InitApp
    /\ [][NextStale]_vars
    /\ WF_vars(ConnectionSetup_useEffect)
    /\ WF_vars(heartbeat_interval)

\* ------------------------------------------------------------------------
\* Properties of the transports
\* ------------------------------------------------------------------------
\* the messages of a send log that were sent while the claim's precondition held
LiveMsgs(log) ==
    LET IsLive(e) == e.live
        live == SelectSeq(log, IsLive)
    IN  [i \in 1..Len(live) |-> live[i].msg]

IsPrefix(s, t) == Len(s) <= Len(t) /\ \A i \in 1..Len(s) : s[i] = t[i]

Range(s) == {s[i] : i \in 1..Len(s)}

\* C1: on the negotiated peer transport a send() made while the data channel
\* is not open returns normally (raises nothing), puts nothing on the wire and
\* keeps nothing for later: the message is never in flight and never reaches
\* the remote callback, also after the channel has opened.
C1_SendBeforeOpenIsDropped ==
    mode = "UDP_P2P" =>
        \A r \in Roles :
            /\ <<"send", r>> \notin raised
            /\ \A i \in 1..Len(sendLog[r]) :
                ~sendLog[r][i].live =>
                    /\ [to |-> Other(r), msg |-> sendLog[r][i].msg] \notin wire
                    /\ sendLog[r][i].msg \notin Range(delivered[Other(r)])

\* C1 witness: an endpoint sent one message before its channel was open and one
\* after; the second reached the remote callback.
C1_Witness ==
    /\ mode = "UDP_P2P"
    /\ \E r \in Roles :
        /\ Len(sendLog[r]) = 2
        /\ ~sendLog[r][1].live
        /\ sendLog[r][2].live
        /\ sendLog[r][2].msg \in Range(delivered[Other(r)])

Disconnected(r) ==
    IF mode = "LOCAL"
    THEN channel[r] \in {"null", "closed"}
    ELSE /\ dataChannel[r] \in {"null", "closed"}
         /\ peerConnection[r] \in {"null", "closed"}
         /\ signalingWs[r] \in {"null", "closed"}

\* C2: on both transports disconnect() never raises, and whenever it is called
\* (never connected, connected, or already disconnected) the transport is
\* disconnected afterwards.
C2_DisconnectSafe ==
    /\ [](\A r \in Roles : <<"disconnect", r>> \notin raised)
    /\ [][\A r \in Roles : disconnects'[r] # disconnects[r] => Disconnected(r)']_vars

\* C2 witness: one negotiated endpoint was disconnected in all three situations,
\* the second of them with its data channel and peer connection in existence.
C2_Witness ==
    \E r \in Roles :
        /\ disconnects[r] = {"never", "connected", "again"}
        /\ mode = "UDP_P2P"
        /\ peerConnection[r] = "closed"
        /\ Disconnected(r)

\* C3: between two connected Loopback instances with callbacks registered, the
\* messages one instance sends reach the other's callback exactly once and in
\* send order, none lost (each is delivered or still queued for delivery; once
\* the receiver has disconnected only a prefix was delivered), and no message
\* ever reaches the callback of its own sender.
C3_LoopbackOrderedExactlyOnce ==
    mode = "LOCAL" =>
        \A r \in Roles :
            LET d == Other(r)
                liveSent == LiveMsgs(sendLog[r])
                InSent(m) == m \in Range(liveSent)
                got == SelectSeq(delivered[d], InSent)
                queued == SelectSeq(inbox[d], InSent)
            IN  /\ \A m \in Range(delivered[r]) \cup Range(inbox[r]) : m.from # r
                /\ IsPrefix(got, liveSent)
                /\ channel[d] = "open" => got \o queued = liveSent

\* C3 witness: two messages sent by one connected instance were both delivered,
\* in order, to the other instance's callback.
C3_Witness ==
    /\ mode = "LOCAL"
    /\ \E r \in Roles :
        /\ Len(LiveMsgs(sendLog[r])) = 2
        /\ delivered[Other(r)] = LiveMsgs(sendLog[r])

\* a step that hands an inbound message of type `type` to the registered callback
Inbound(type) == inputs' = inputs + 1 /\ appOp'.op = type

\* a step that runs one gameLoop callback
Tick == ticks' = ticks + 1

\* C4: from session setup until the session is left, every inbound application
\* message is handled by the dispatcher registered at session setup: an inbound
\* Chat message is appended to the chat history, and an inbound Presence-Ping
\* or Join-Ack sets the remote-present flag.
C4_InboundReachesDispatcher ==
    [][(\E type \in {"PING", "JOIN_LOBBY", "ACK_JOIN", "CHAT_MSG", "START_GAME",
                     "STATE_UPDATE", "TRAP_TRIGGER"} : Inbound(type))
       => /\ callback = "dispatcher"
          /\ Inbound("CHAT_MSG") => Len(chatHistory') = Len(chatHistory) + 1
          /\ (Inbound("PING") \/ Inbound("ACK_JOIN")) => isOpponentConnected']_vars

\* C5: once the Runner is back on the menu with the status Playing, no further
\* simulation tick executes and the authoritative GameState no longer changes.
C5_LeaveCancelsTickLoop ==
    [][(screen = "MENU" /\ stateRef.gameStatus = "PLAYING" /\ pendingStart = "none")
       => (~Tick /\ stateRef' = stateRef)]_vars

\* C6: on the Runner a tick, an input or a trap intent moves the status only
\* from Playing to Won or to Lost, and once the status is Won or Lost it
\* changes no field of the authoritative GameState.
C6_TerminalStatusIsFinal ==
    [][(Tick \/ inputs' # inputs)
       => /\ \/ stateRef'.gameStatus = stateRef.gameStatus
             \/ stateRef.gameStatus = "PLAYING" /\ stateRef'.gameStatus \in {"WON", "LOST"}
          /\ stateRef.gameStatus \in {"WON", "LOST"} => stateRef' = stateRef]_vars

\* C7: revives stays within 0..3 and no tick increases it; a tick in which the
\* actor ends past the death threshold short of the level end consumes exactly
\* one revive and keeps the status Playing when revives > 0, and sets the
\* status to Lost when revives = 0.
C7_ReviveAccounting ==
    [][Tick =>
        LET player == MovePlayer(stateRef, keysPressed, 0) IN
        /\ stateRef'.revives \in 0..StartRevives
        /\ stateRef'.revives <= stateRef.revives
        /\ (player.x < stateRef.levelLength /\ player.y > DeathY)
           => IF stateRef.revives > 0
              THEN /\ stateRef'.revives = stateRef.revives - 1
                   /\ stateRef'.gameStatus = "PLAYING"
              ELSE stateRef'.gameStatus = "LOST"]_vars

\* C8: after a tick in which the actor descends no faster than a platform is
\* thick, the feet are not below the top of that platform if it overlaps the
\* actor's tentative horizontal extent and the feet were at or above its top
\* when the tick started (ticks that end in a respawn aside).
C8_CollisionSound ==
    [][(Tick /\ stateRef'.gameStatus = "PLAYING" /\ stateRef'.revives = stateRef.revives)
       => LET before == stateRef.player
              after == stateRef'.player
              vy == FallSpeed(before, keysPressed)
          IN  \A i \in 1..Len(stateRef.level) :
                 LET plat == stateRef.level[i] IN
                 (/\ vy >= 0
                  /\ vy <= plat.height * 10
                  /\ after.x + PlayerWidth > plat.x
                  /\ after.x < plat.x + plat.width
                  /\ before.y + FeetOffset <= plat.y)
                 => after.y + FeetOffset <= plat.y]_vars

\* a Crack intent handled right after a Crack intent that removed a platform
SecondCrack ==
    /\ Inbound("TRAP_TRIGGER") /\ appOp'.arg = "CRACK"
    /\ appOp.op = "TRAP_TRIGGER" /\ appOp.arg = "CRACK"
    /\ appOp.prev.level # stateRef.level

C10_ReverseResets ==
    [][(/\ Inbound("TRAP_TRIGGER") /\ appOp'.arg = "REVERSE"
        /\ callback = "dispatcher" /\ cbRole = "RUNNER"
        /\ stateRef.gameStatus = "PLAYING"
        /\ stateRef.player.controlsReversed)
       => /\ stateRef'.player.controlsReversed
          /\ stateRef'.player.reverseTimer = ReverseDuration]_vars

\* C10 witness: a Reverse intent was applied while the flag was set and the
\* countdown had already run below the full duration, and reset it.
C10_Witness ==
    /\ appOp.op = "TRAP_TRIGGER" /\ appOp.arg = "REVERSE"
    /\ appOp.prev.gameStatus = "PLAYING"
    /\ appOp.prev.player.controlsReversed
    /\ appOp.prev.player.reverseTimer < ReverseDuration
    /\ stateRef.player.controlsReversed
    /\ stateRef.player.reverseTimer = ReverseDuration

\* C11: a tick while Playing in which the actor's new horizontal position is at
\* or past the level length sets the status to Won, whatever the vertical
\* position and the revives: no revive is consumed and Lost is not reached.
C11_WinPrecedesDeath ==
    [][(Tick /\ stateRef.gameStatus = "PLAYING"
        /\ MovePlayer(stateRef, keysPressed, 0).x >= stateRef.levelLength)
       => /\ stateRef'.gameStatus = "WON"
          /\ stateRef'.revives = stateRef.revives
          /\ ~crashed']_vars

\* C11 witness: the actor stood at x = 3999 past the death threshold with
\* revives left, moved right by the move speed for one tick, and the status
\* became Won.
C11_Witness ==
    /\ appOp.op = "gameLoop"
    /\ appOp.prev.gameStatus = "PLAYING"
    /\ appOp.prev.player.x = LEVEL_LENGTH - 1
    /\ appOp.prev.player.y > DeathY
    /\ appOp.prev.revives > 0
    /\ stateRef.player.x = LEVEL_LENGTH - 1 + MOVE_SPEED
    /\ stateRef.gameStatus = "WON"
    /\ stateRef.revives = appOp.prev.revives

\* C12: every simulation tick sends exactly one State-Snapshot carrying the
\* whole authoritative GameState as it is after that tick, the tick that
\* reaches Won or Lost included; no tick runs, and so no State-Snapshot is
\* sent, after that terminal one, and nothing but a tick sends a snapshot.
C12_SnapshotPerTick ==
    [][/\ Tick => /\ sent' = <<Msg("STATE_UPDATE", stateRef')>>
                  /\ stateRef.gameStatus = "PLAYING"
       /\ ~Tick => \A i \in 1..Len(sent') : sent'[i].type # "STATE_UPDATE"]_vars

\* C13: on the Trapper, after each State-Snapshot arrival the whole GameState
\* view equals that snapshot's payload, whatever the previous view was.
C13_LastSnapshotWins ==
    [][(Inbound("STATE_UPDATE") /\ role = "TRAPPER")
       => \E snapshot \in Snapshots :
             /\ snapshot.gameStatus = appOp'.arg
             /\ gameState' = snapshot]_vars

\* C14: the Trapper never runs a simulation tick and never applies a trap
\* effect, and the PlayerState of its view changes only by an inbound
\* State-Snapshot or by the initialisation at a game start; on the Runner no
\* inbound State-Snapshot or Start-Session changes the authoritative GameState.
C14_SingleAuthority ==
    [][/\ role = "TRAPPER"
          => /\ ~Tick
             /\ Inbound("TRAP_TRIGGER") => stateRef' = stateRef
             /\ gameState'.player # gameState.player
                => \/ Inbound("STATE_UPDATE") \/ Inbound("START_GAME")
                   \/ appOp'.op = "initiateGame_resumed"
       /\ (role = "RUNNER" /\ (Inbound("STATE_UPDATE") \/ Inbound("START_GAME")))
          => stateRef' = stateRef]_vars

\* C15: a start that is waiting for the level generator always gets through:
\* whatever the generator does (fails, answers nonsense, never answers), the
\* wait ends and the session is Playing.
C15_StartAlwaysCompletes ==
    isLoading ~> (~isLoading /\ stateRef.gameStatus = "PLAYING")

\* C16: a tick of a Playing game never fails, whatever the level (the empty
\* one included): it schedules the next tick while the game is still
\* Playing, and a fall below the death line with revives left ends in a
\* respawn (the actor at rest, one revive spent).
C16_TickNeverFails ==
    [][(Tick /\ stateRef.gameStatus = "PLAYING")
       => LET moved == MovePlayer(stateRef, keysPressed, Min(gap, MaxDt)) IN
          /\ ~UpdatePhysics(stateRef, keysPressed, Min(gap, MaxDt)).threw
          /\ stateRef'.gameStatus = "PLAYING" => frames' = frames + 1
          /\ (~Wins(stateRef, moved) /\ moved.y > DeathY /\ stateRef.revives > 0)
             => /\ stateRef'.revives = stateRef.revives - 1
                /\ stateRef'.player.vx = 0 /\ stateRef'.player.vy = 0]_vars

\* C17: the remote-present flag is sticky: the only step that clears it is
\* the user's return to the menu; no inbound message, timer tick, frame or
\* transport event does.
C17_RemotePresentSticky ==
    [][(isOpponentConnected /\ ~isOpponentConnected')
       => (appOp'.op = "handleBack" /\ screen' = "MENU")]_vars

C17_Witness ==
    /\ isOpponentConnected
    /\ appOp.op = "heartbeat_interval"
    /\ appOp.last.op \in {"CHAT_MSG", "STATE_UPDATE", "JOIN_LOBBY"}
    /\ screen # "MENU"

\* C18: in an active session (connection, lobby or game screen) every
\* Presence-Ping, Join-Announce and Join-Ack that reaches the dispatcher of
\* the session controller leaves the remote-present flag set.
C18_PresenceSetsFlag ==
    [][(/\ \E type \in {"PING", "JOIN_LOBBY", "ACK_JOIN"} : Inbound(type)
        /\ callback = "dispatcher"
        /\ screen \in {"CONNECTION", "LOBBY", "GAME"})
       => isOpponentConnected']_vars

\* C19: every Trap-Trigger the Runner receives is applied when the game is
\* Playing (no cooldown: the outcome is the effect of the trap on the state
\* as it is, whatever was received before) and changes nothing of the
\* authoritative state when the game is Idle, Won or Lost.
C19_EveryTrapApplied ==
    [][(Inbound("TRAP_TRIGGER") /\ role = "RUNNER")
       => IF stateRef.gameStatus = "PLAYING"
          THEN \E sign \in {-1, 1} :
                   stateRef' = HandleTrapTrigger(stateRef, appOp'.arg, sign)
          ELSE stateRef' = stateRef]_vars

\* C20: when the signaling socket errors before it opened, connect() rejects
\* and neither a peer connection nor a data channel exists; the failed
\* transport stays as it is until the caller calls connect() again (which the
\* caller can do) or disconnects.
C20_SignalingErrorFailsConnect ==
    [][\A r \in Roles :
          /\ (signalingWs[r] = "connecting" /\ signalingWs'[r] = "failed")
             => /\ connectResult'[r] = "rejected"
                /\ peerConnection'[r] = "null"
                /\ dataChannel'[r] = "null"
          /\ signalingWs[r] = "failed"
             => /\ peerConnection[r] = "null" /\ dataChannel[r] = "null"
                /\ ENABLED UDPNetwork_connect(r)
                /\ signalingWs'[r] # "failed"
                   => \/ signalingWs'[r] = "connecting" /\ connectResult'[r] = "pending"
                      \/ signalingWs'[r] = "closed"]_vars

C20_Witness ==
    /\ signalingWs["RUNNER"] = "failed"
    /\ connectResult["RUNNER"] = "rejected"
    /\ peerConnection["RUNNER"] = "null"
    /\ dataChannel["RUNNER"] = "null"
    /\ signalingWs["TRAPPER"] = "open"

\* C21: a datagram that does not parse is discarded: the handler does not
\* invoke the registered callback for it and lets no exception out; every
\* datagram that parses is handed to the callback, whatever arrived before.
\* (Under SpecDatagram a datagram leaves the wire only through the handler.)
C21_MalformedDiscarded ==
    [][\A d \in wire :
          wire' = wire \ {d}
          => /\ raised' = raised
             /\ delivered'[d.to] = IF JsonParses(d.msg) /\ udpCallback[d.to]
                                   THEN Append(delivered[d.to], d.msg)
                                   ELSE delivered[d.to]
             /\ ~JsonParses(d.msg) => Len(dropped'[d.to]) = Len(dropped[d.to]) + 1]_vars

C21_Witness ==
    \E r \in Roles :
        /\ dropped[r] # <<>>
        /\ dropped[r][1] < Len(delivered[r])
        /\ \A i \in 1..Len(delivered[r]) : JsonParses(delivered[r][i])
        /\ raised = {}

\* C22: the relay hands each frame it receives, unchanged, to every other
\* client that is open at that moment and to nobody else (not to the sender,
\* not to a client that is not connected); it keeps nothing: a client that
\* connects gets no frame from before.
C22_RelayForwardsToOthers ==
    [][/\ (toRelay # <<>> /\ toRelay' = Tail(toRelay))
          => \A c \in Roles :
                fromRelay'[c] = IF c \in relayClients /\ c # Head(toRelay).from
                                THEN Append(fromRelay[c], Head(toRelay))
                                ELSE fromRelay[c]
       /\ relayClients' # relayClients => fromRelay' = fromRelay]_vars

C22_Witness ==
    /\ peerConnection["RUNNER"] = "offered"
    /\ ~offerPending
    /\ toRelay = <<>>
    /\ fromRelay = [c \in Roles |-> <<>>]
    /\ "TRAPPER" \in relayClients
    /\ signalingWs["TRAPPER"] = "open"
    /\ peerConnection["TRAPPER"] = "new"

\* C23: signaling is classified by role.  Offers come from the Runner only
\* and answers from the Trapper only; only the Runner creates the data
\* channel; the Runner's handler does nothing on an offer; the Trapper's
\* handler does nothing on an answer and emits exactly one answer per offer;
\* a handler that finds no peer connection does nothing.
C23_SignalingByRole ==
    [][/\ \A i \in 1..Len(toRelay') :
            /\ toRelay'[i].type = "SIGNAL_OFFER" => toRelay'[i].from = "RUNNER"
            /\ toRelay'[i].type = "SIGNAL_ANSWER" => toRelay'[i].from = "TRAPPER"
       /\ dataChannel'["TRAPPER"] # "connecting"
       /\ \A r \in Roles :
            (fromRelay[r] # <<>> /\ fromRelay'[r] = Tail(fromRelay[r]))
            => LET f == Head(fromRelay[r])
                   ignored == peerConnection' = peerConnection /\ toRelay' = toRelay
               IN  /\ (r = "RUNNER" /\ f.type = "SIGNAL_OFFER") => ignored
                   /\ (r = "TRAPPER" /\ f.type = "SIGNAL_ANSWER") => ignored
                   /\ peerConnection[r] = "null" => ignored
                   /\ (r = "TRAPPER" /\ f.type = "SIGNAL_OFFER" /\ signalingWs[r] = "open")
                      => toRelay' = Append(toRelay, [from |-> "TRAPPER",
                                                     type |-> "SIGNAL_ANSWER"])]_vars

C23_Witness ==
    /\ "SIGNAL_OFFER" \in foreignSeen["RUNNER"]
    /\ peerConnection["RUNNER"] = "offered"
    /\ foreignSeen["TRAPPER"] = {"SIGNAL_OFFER", "SIGNAL_ANSWER"}
    /\ peerConnection["TRAPPER"] = "stable"

\* C24: the opening of the data channel puts exactly one Presence-Ping on the
\* channel, and a Presence-Ping that arrives makes the session controller
\* mark the remote peer present and answer with one Join-Ack.
C24_PingMarksPresent ==
    [][/\ appOp'.op = "dataChannel_onopen" /\ appOp' # appOp
          => sent' = <<Msg("PING", "")>>
       /\ Inbound("PING")
          => /\ isOpponentConnected'
             /\ Len(SelectSeq(sent', LAMBDA m : m.type = "ACK_JOIN")) = 1]_vars

\* C25: entering the lobby or the game screen with a connected transport
\* sends one Join-Announce with the local role; the presence timer is
\* installed exactly while the controller is in the lobby or the game with a
\* role and a transport, and each of its ticks sends one Join-Announce with
\* the local role; in the menu the timer is gone and nothing is announced.
C25_PresenceAnnounce ==
    [][LET announces == SelectSeq(sent', LAMBDA m : m.type = "JOIN_LOBBY") IN
       /\ (screen' \in {"LOBBY", "GAME"} /\ screen' # screen
           /\ network' # "null" /\ link' = "open")
          => announces = <<Msg("JOIN_LOBBY", role')>>
       /\ heartbeat' = (screen' \in {"LOBBY", "GAME"} /\ role' # "null" /\ network' # "null")
       /\ (appOp'.op = "heartbeat_interval" /\ link = "open")
          => /\ screen \in {"LOBBY", "GAME"}
             /\ sent' = <<Msg("JOIN_LOBBY", role)>>
       /\ announces # <<>> => screen' \in {"LOBBY", "GAME"}
       /\ screen' = "MENU" => ~heartbeat']_vars

C25_Witness ==
    /\ appOp.op = "heartbeat_interval"
    /\ appOp.last.op = "heartbeat_interval"
    /\ screen = "GAME"
    /\ sessions = MaxSessions
    /\ sent = <<Msg("JOIN_LOBBY", role)>>

\* C26: a tick of a Playing game that ends Playing (a tick that spends a
\* revive included) adds the tick's elapsed time, at most 50, to the elapsed
\* time; a tick that ends in Won or Lost leaves it as it was; and no step
\* other than the start of a game ever lowers it.
C26_ElapsedTime ==
    [][/\ (Tick /\ stateRef.gameStatus = "PLAYING")
          => /\ stateRef'.gameStatus = "PLAYING"
                => stateRef'.timeElapsed = stateRef.timeElapsed + Min(gap, MaxDt)
             /\ stateRef'.gameStatus \in {"WON", "LOST"}
                => stateRef'.timeElapsed = stateRef.timeElapsed
       /\ appOp'.op # "initiateGame_resumed"
          => stateRef'.timeElapsed >= stateRef.timeElapsed]_vars

\* C27: a tick that spends a revive puts the actor, at rest, on the platform
\* with the greatest x below the actor's x, taken among all platforms of the
\* level (one at x = 0 included), or on the first platform of the list when
\* no platform lies before the actor.
C27_RespawnOnClosestPreceding ==
    [][LET moved == MovePlayer(stateRef, keysPressed, Min(gap, MaxDt))
           level == stateRef.level
           preceding == {i \in 1..Len(level) : level[i].x < moved.x}
           closest == {i \in preceding : \A j \in preceding : level[j].x <= level[i].x}
           targets == IF preceding # {} THEN closest ELSE {1}
       IN  (/\ Tick /\ stateRef.gameStatus = "PLAYING" /\ level # <<>>
            /\ ~Wins(stateRef, moved) /\ moved.y > DeathY /\ stateRef.revives > 0)
           => \E i \in targets :
                 /\ stateRef'.player.x = level[i].x
                 /\ stateRef'.player.y = level[i].y - RespawnOffset
                 /\ stateRef'.player.vx = 0
                 /\ stateRef'.player.vy = 0]_vars

\* C28: a Crack intent applied while the actor stands on a platform (feet on
\* its top, the body overlapping it horizontally as the collision test
\* requires) removes that platform and nothing else: the other platforms
\* keep their order and the PlayerState is untouched; with no platform under
\* the actor the intent changes nothing.
C28_CrackRemovesSupport ==
    [][(/\ Inbound("TRAP_TRIGGER") /\ appOp'.arg = "CRACK"
        /\ cbRole = "RUNNER" /\ stateRef.gameStatus = "PLAYING")
       => LET p == stateRef.player
              level == stateRef.level
              supporting == {i \in 1..Len(level) :
                                /\ p.x + PlayerWidth > level[i].x
                                /\ p.x < level[i].x + level[i].width
                                /\ p.y + FeetOffset = level[i].y}
          IN  /\ (p.isGrounded /\ supporting # {})
                 => \E i \in supporting :
                       stateRef' = [stateRef EXCEPT !.level =
                                       [j \in 1..(Len(level) - 1) |->
                                           IF j < i THEN level[j] ELSE level[j + 1]]]
              /\ (~p.isGrounded /\ supporting = {}
                  /\ \A i \in 1..Len(level) : ~IsUnder(level[i], p))
                 => stateRef' = stateRef]_vars

C30_CooldownSpacesIntents ==
    [][/\ \A t \in TrapTypes :
            (appOp'.op = "handleTrap" /\ appOp'.arg = t /\ inputs' = inputs + 1)
            => /\ sent' \in {<<>>, <<Msg("TRAP_TRIGGER", t)>>}
               /\ sent' # <<>>
                  => /\ cooldowns[t] = 0
                     /\ gameState.gameStatus = "PLAYING"
                     /\ cooldowns'[t] = COOLDOWN_TIMES[t]
                     /\ sinceTrap[t] = -1
                        \/ sinceTrap[t] >= COOLDOWN_TIMES[t] \div CooldownStep
               /\ \A u \in TrapTypes \ {t} : cooldowns'[u] = cooldowns[u]
       /\ (appOp'.op = "TrapperView_interval" /\ viewVars' # viewVars)
          => \A t \in TrapTypes :
                cooldowns'[t] = IF cooldowns[t] >= CooldownStep
                                THEN cooldowns[t] - CooldownStep ELSE 0]_vars

\* the direction the controls give in the current state: left and right
\* cancel, and reversed controls invert the sign
Direction ==
    LET dir0 == (IF "ArrowRight" \in keysPressed THEN 1 ELSE 0)
                - (IF "ArrowLeft" \in keysPressed THEN 1 ELSE 0)
    IN  IF stateRef.player.controlsReversed THEN -dir0 ELSE dir0

\* a tick that spends a revive
Respawns == Tick /\ stateRef'.revives = stateRef.revives - 1

C32_NegotiationCompletes ==
    (signalingWs["RUNNER"] = "open" /\ signalingWs["TRAPPER"] = "open")
        ~> (peerConnection["TRAPPER"] = "stable" /\ peerConnection["RUNNER"] = "stable")

\* the Trapper's adapter has just handed a terminal snapshot to its callback
TerminalDelivered ==
    /\ role = "TRAPPER" /\ screen # "MENU"
    /\ appOp.op = "STATE_UPDATE" /\ appOp.arg \in {"WON", "LOST"}

\* C33: once a terminal snapshot has been delivered to the Trapper, its view
\* eventually shows a terminal status and keeps it, whatever snapshots arrive
\* afterwards, for as long as the session is not left.
C33_TerminalViewSettles ==
    [](TerminalDelivered
       => <>(screen = "MENU" \/ [](gameState.gameStatus \in {"WON", "LOST"})))

\* C34: on the Runner at most one gameLoop callback is requested or about to
\* run at any time, so a display frame runs one physics step.
C34_OneTickLoop == role = "RUNNER" => frames + running <= 1

\* the kinds of application message the dispatcher knows
MsgTypes ==
    {"PING", "JOIN_LOBBY", "ACK_JOIN", "CHAT_MSG", "START_GAME", "STATE_UPDATE",
     "TRAP_TRIGGER"}

\* the messages of kind `type` among those the last operation sent
SentOf(log, type) == {i \in 1..Len(log) : log[i].type = type}

C36_StartSessionOnly ==
    [][/\ (role = "TRAPPER" /\ screen = "LOBBY" /\ screen' = "GAME")
          => (Inbound("START_GAME") \/ appOp'.op = "initiateGame_resumed")
       /\ (role = "TRAPPER" /\ screen = "LOBBY" /\ Inbound("STATE_UPDATE"))
          => /\ screen' = "LOBBY"
             /\ \E snapshot \in Snapshots :
                   snapshot.gameStatus = appOp'.arg /\ gameState' = snapshot
       /\ Cardinality(SentOf(sent', "START_GAME"))
            = IF appOp'.op = "initiateGame_resumed" /\ pendingStart # "none"
                 /\ pendingStart' = "none"
              THEN 1 ELSE 0]_vars

\* C37: when level generation completes for a start whose user has gone back
\* to the menu, the screen stays on the menu, the GameState is not replaced
\* by a new Playing game, no gameLoop callback is requested and no
\* Start-Session is sent.
C37_PendingStartAbandoned ==
    [][(screen = "MENU" /\ pendingStart # "none" /\ pendingStart' = "none")
       => /\ screen' = "MENU"
          /\ UNCHANGED <<stateRef, gameState>>
          /\ frames' = frames
          /\ SentOf(sent', "START_GAME") = {}]_vars

====
